---- MODULE Spec2Model ----
(***************************************************************************)
(* emculator: Thumb/Thumb-2 instruction-level emulator (machine.c).        *)
(* State machine of machine_t, the address-space router machine_transfer,  *)
(* the flag arithmetic kernel, machine_step and the machine_run/halt loop. *)
(*                                                                         *)
(* 32-bit words are pairs <<hi, lo>> of 16-bit halves (the value is        *)
(* hi * 2^16 + lo); 64-bit intermediates are triples <<top, hi, lo>> with  *)
(* a signed top limb (the value is top * 2^32 + hi * 2^16 + lo).           *)
(***************************************************************************)
EXTENDS Integers, Sequences, FiniteSets, TLC

VARIABLES machine,  \* the machine_t
          runpc,    \* position of the thread inside machine_run
          result,   \* value returned by the last machine_run / machine_step call
          steperr,  \* value returned by the last machine_step call
          icount,   \* number of machine_step calls that fetched an instruction
          shadow,   \* an uninterrupted execution of the same image
          prev,     \* the guest state before the last machine_step call, and
                    \* whether that call fetched an instruction
          phase,    \* "halted" once machine_run has returned ERR_HALT, "resumed" once
                    \* an instruction has been executed after that, "reset" right
                    \* after a later machine_reset, "read" right after a
                    \* machine_readregs, "none" otherwise
          prog,     \* the firmware image the machine was loaded with
          gdb,      \* the goroutines of main and of the gdb server: where each
                    \* stands, Machine.halted and the last packet handled
          readout   \* what the last machine_readregs call did with its buffer

vars == <<machine, runpc, result, steperr, icount, shadow, prev, phase, prog, gdb, readout>>

----------------------------------------------------------------------------
(* Bounds of the model *)

NumPages  == 4    \* flash pages in the image
PageShift == 4    \* pagesize = 2^PageShift bytes
MemWords  == 4    \* SRAM words
MaxSteps  == 12   \* instructions executed per behaviour

----------------------------------------------------------------------------
(* uint32_t arithmetic on <<hi, lo>> *)

H16 == 2^16

Word(n) == <<n \div H16, n % H16>>           \* 0 <= n < 2^31
Hi(w) == w[1]
Lo(w) == w[2]
ZERO == <<0, 0>>
IsWord(w) == w[1] \in 0..(H16-1) /\ w[2] \in 0..(H16-1)

add32(a, b) ==
  LET lo == a[2] + b[2]
      hi == a[1] + b[1] + (lo \div H16)
  IN  <<hi % H16, lo % H16>>

sub32(a, b) ==
  LET lo == a[2] - b[2]
      hi == a[1] - b[1] + (lo \div H16)      \* \div floors: borrow is -1
  IN  <<hi % H16, lo % H16>>

addi(a, n) == add32(a, Word(n))
subi(a, n) == sub32(a, Word(n))

RECURSIVE BitAnd(_, _, _)
BitAnd(x, y, n) ==
  IF n = 0 THEN 0
  ELSE ((x % 2) * (y % 2)) + 2 * BitAnd(x \div 2, y \div 2, n - 1)

and16(x, y) == BitAnd(x, y, 16)
and32(a, b) == <<and16(a[1], b[1]), and16(a[2], b[2])>>
not32(a) == <<H16 - 1 - a[1], H16 - 1 - a[2]>>
or32(a, b) == not32(and32(not32(a), not32(b)))
xor32(a, b) == and32(or32(a, b), not32(and32(a, b)))

\* bit i (0..31) of a word
bit32(w, i) == IF i < 16 THEN (w[2] \div 2^i) % 2 ELSE (w[1] \div 2^(i-16)) % 2

\* (uint32_t)(w << n) and w >> n for 0 <= n <= 31
shl32(w, n) ==
  IF n >= 16 THEN <<((w[2] % 2^(32-n)) * 2^(n-16)) % H16, 0>>
  ELSE LET lo == w[2] * 2^n
       IN  <<((w[1] % 2^(16-n)) * 2^n + (lo \div H16)) % H16, lo % H16>>

shr32(w, n) ==
  IF n >= 16 THEN <<0, w[1] \div 2^(n-16)>>
  ELSE <<w[1] \div 2^n, (w[2] \div 2^n) + (w[1] % 2^n) * 2^(16-n)>>

\* (int32_t)w < 0
neg32(w) == w[1] >= 2^15

\* w >= n and w > n for an integer 0 <= n < 2^31
geInt(w, n) == w[1] >= 2^15 \/ w[1] * H16 + w[2] >= n
gtInt(w, n) == w[1] >= 2^15 \/ w[1] * H16 + w[2] > n

(* 64-bit intermediates <<top, hi, lo>> *)
u64(w) == <<0, w[1], w[2]>>                                 \* (uint64_t)w
s64(w) == <<IF neg32(w) THEN -1 ELSE 0, w[1], w[2]>>        \* (int64_t)(int32_t)w
norm64(top, hi, lo) ==
  LET h == hi + (lo \div H16)
  IN  <<top + (h \div H16), h % H16, lo % H16>>
add64(x, y) == norm64(x[1] + y[1], x[2] + y[2], x[3] + y[3])
sub64(x, y) == norm64(x[1] - y[1], x[2] - y[2], x[3] - y[3])
addc64(x, c) == norm64(x[1], x[2], x[3] + c)
neg64(x) == x[1] < 0                    \* (int64_t)x < 0; |top| stays far below 2^31
low32(x) == <<x[2], x[3]>>

----------------------------------------------------------------------------
(* Result codes (machine.h enum; ERR_OK is 0) and enums *)

ERR_OK        == "ERR_OK"
ERR_EXIT      == "ERR_EXIT"
ERR_HALT      == "ERR_HALT"
ERR_BREAK     == "ERR_BREAK"
ERR_MEM       == "ERR_MEM"
ERR_PC        == "ERR_PC"
ERR_UNDEFINED == "ERR_UNDEFINED"
ERR_DIVZERO   == "ERR_DIVZERO"
\* a Thumb-2 family that this development does not decode; never reached
\* (invariant Decoded)
UNMODELLED    == "UNMODELLED"

LOAD  == "LOAD"
STORE == "STORE"
WIDTH_8  == 0
WIDTH_16 == 1
WIDTH_32 == 2

\* sizeof the C type a width_t selects: uint8_t, uint16_t, uint32_t
WidthBytes(width) == 2^width

LOG_ERROR  == "LOG_ERROR"
LOG_INSTRS == "LOG_INSTRS"

MACHINE_BACKTRACE_LEN == 100

SENTINEL == <<57005, 48879>>            \* 0xdeadbeef

(* What the host and the C implementation leave open in one step:          *)
(*   shift  outcome of a C shift whose count is >= 32 (undefined): the     *)
(*          count taken modulo 32 (x86 shifts) or the value shifted out    *)
(*          entirely (ARM shifts, constant folding);                       *)
(*   byte   content of a byte read outside a buffer;                      *)
(*   chr    terminal_getchar(), rnd    rand() & 0xff.                      *)
Env == [shift : {"mask5", "zero"}, byte : {255}, chr : {<<0, 65>>}, rnd : {0}]

----------------------------------------------------------------------------
(* Buffers of machine_t as byte arrays *)

BufOf(m, b) ==
  CASE b = "image" -> m.image8
    [] b = "mem"   -> m.mem8
    [] b = "uicr"  -> m.uicr8
    [] b = "nvic"  -> m.nvic8
    [] b = "scb"   -> m.scb8

SizeOf(m, b) ==
  CASE b = "image" -> m.image_size
    [] b = "mem"   -> m.mem_size
    [] b = "uicr"  -> 8
    [] b = "nvic"  -> 32
    [] b = "scb"   -> 4

WithBuf(m, b, f) ==
  CASE b = "image" -> [m EXCEPT !.image8 = f]
    [] b = "mem"   -> [m EXCEPT !.mem8 = f]
    [] b = "uicr"  -> [m EXCEPT !.uicr8 = f]
    [] b = "nvic"  -> [m EXCEPT !.nvic8 = f]
    [] b = "scb"   -> [m EXCEPT !.scb8 = f]

\* byte k (0..3) of a word, little endian
ByteOf(w, k) ==
  CASE k = 0 -> w[2] % 256
    [] k = 1 -> w[2] \div 256
    [] k = 2 -> w[1] % 256
    [] k = 3 -> w[1] \div 256

rd8(m, b, o, env) == IF o < SizeOf(m, b) THEN BufOf(m, b)[o] ELSE env.byte

\* *(uintN_t*)ptr, zero extended
rdptr(m, ptr, width, env) ==
  LET b0 == rd8(m, ptr.buf, ptr.off, env)
      b1 == IF width # WIDTH_8 THEN rd8(m, ptr.buf, ptr.off + 1, env) ELSE 0
      b2 == IF width = WIDTH_32 THEN rd8(m, ptr.buf, ptr.off + 2, env) ELSE 0
      b3 == IF width = WIDTH_32 THEN rd8(m, ptr.buf, ptr.off + 3, env) ELSE 0
  IN  <<b3 * 256 + b2, b1 * 256 + b0>>

\* TRUE when an access of n bytes at ptr leaves its buffer (undefined in C)
outside(m, ptr, n) == ptr.off + n > SizeOf(m, ptr.buf)

\* *(uintN_t*)ptr = w; bytes that fall outside the buffer are recorded in oob
wrptr(m, ptr, width, w) ==
  LET old == BufOf(m, ptr.buf)
      new == [i \in DOMAIN old |->
                IF i >= ptr.off /\ i < ptr.off + WidthBytes(width)
                THEN ByteOf(w, i - ptr.off) ELSE old[i]]
  IN  [WithBuf(m, ptr.buf, new) EXCEPT !.oob = @ \/ outside(m, ptr, WidthBytes(width))]

\* memset with the length one short: memset(image8 + v, 0xff, n - 1)
memset_image_short(m, v, n) ==
  [m EXCEPT !.image8 = [i \in DOMAIN m.image8 |->
                          IF i >= v /\ i < v + n - 1 THEN 255 ELSE m.image8[i]],
            !.oob = @ \/ v + n - 1 > m.image_size]

\* memset(image8 + v, 0xff, n)
memset_image(m, v, n) ==
  [m EXCEPT !.image8 = [i \in DOMAIN m.image8 |->
                          IF i >= v /\ i < v + n THEN 255 ELSE m.image8[i]],
            !.oob = @ \/ v + n > m.image_size]

\* sign extension of an 8 or 16 bit value
sext8(w)  == IF w[2] % 256 >= 128 THEN <<H16 - 1, 65280 + (w[2] % 256)>> ELSE <<0, w[2] % 256>>
sext16(w) == IF w[2] >= 2^15 THEN <<H16 - 1, w[2]>> ELSE <<0, w[2]>>

NULL == [buf |-> "null", off |-> 0]

----------------------------------------------------------------------------
(* machine_transfer: the address-space router.                             *)
(* Returns err, the machine after the transfer and, for a LOAD, the value  *)
(* written to *reg (val = reg when *reg is left alone).                    *)

Ret(e, m, v) ==
  [err |-> e, m |-> IF e = ERR_MEM THEN [m EXCEPT !.rejected = TRUE] ELSE m, val |-> v]

region0_ptr(m, address, ra) ==
  IF ra < m.image_size THEN [buf |-> "image", off |-> ra]
  ELSE IF address = <<4096, 4608>> THEN [buf |-> "uicr", off |-> 0]    \* 0x10001200
  ELSE IF address = <<4096, 4612>> THEN [buf |-> "uicr", off |-> 4]    \* 0x10001204
  ELSE NULL

region7_ptr(m, address) ==
  IF address[1] = 57344 /\ (address[2] \div 16) * 16 = 58368             \* (address & 0xfffffff0) == 0xe000e400
  THEN [buf |-> "nvic", off |-> 4 * (address[2] % 32)]                   \* &nvic.ip[address % 32]
  ELSE IF address = <<57344, 60808>> THEN [buf |-> "scb", off |-> 0]     \* 0xe000ed88
  ELSE NULL

\* the common tail of machine_transfer: plain access through ptr
loaded(v, width, signextend) ==
  IF width = WIDTH_8 THEN (IF signextend THEN sext8(v) ELSE v)
  ELSE IF width = WIDTH_16 THEN (IF signextend THEN sext16(v) ELSE v)
  ELSE v

transfer_ptr(m, ptr, transfer_type, reg, width, signextend, env) ==
  IF ptr = NULL THEN Ret(ERR_MEM, m, reg)
  ELSE IF transfer_type = LOAD
  THEN Ret(ERR_OK, [m EXCEPT !.oob = @ \/ outside(m, ptr, WidthBytes(width))],
           loaded(rdptr(m, ptr, width, env), width, signextend))
  ELSE Ret(ERR_OK, wrptr(m, ptr, width, reg), reg)

\* flash_store as a plain memory write: *(uint32_t*)ptr = *reg
flash_store_overwrite(m, address, ptr, reg, width, env) ==
  IF address[2] % 4 # 0 \/ width # WIDTH_32 THEN Ret(ERR_MEM, m, reg)
  ELSE IF ~m.image_writable THEN Ret(ERR_MEM, m, reg)
  ELSE Ret(ERR_OK, wrptr(m, ptr, WIDTH_32, reg), reg)

\* region 0 STORE through a non-NULL ptr: NOR flash
flash_store(m, address, ptr, reg, width, env) ==
  IF address[2] % 4 # 0 \/ width # WIDTH_32 THEN Ret(ERR_MEM, m, reg)
  ELSE IF ~m.image_writable THEN Ret(ERR_MEM, m, reg)
  ELSE Ret(ERR_OK, wrptr(m, ptr, WIDTH_32, and32(rdptr(m, ptr, WIDTH_32, env), reg)), reg)

\* region 2: peripherals
periph(m, address, transfer_type, reg, width, env) ==
  IF address[2] % 4 # 0 \/ width # WIDTH_32 THEN Ret(ERR_MEM, m, reg)
  ELSE
    LET a == address
        ld(v) == Ret(ERR_OK, m, IF transfer_type = LOAD THEN v ELSE reg)
    IN  IF transfer_type = STORE /\ a \in {<<16384, 8192>>, <<16384, 8196>>,
                                           <<16384, 8200>>, <<16384, 8204>>}
        THEN ld(ZERO)                                        \* STARTRX..STOPTX
        ELSE IF a = <<16384, 8456>> THEN ld(<<0, 1>>)        \* 0x40002108 RXDRDY
        ELSE IF a = <<16384, 8476>> THEN ld(<<0, 1>>)        \* 0x4000211c TXDRDY
        ELSE IF a = <<16384, 8484>> THEN ld(ZERO)            \* 0x40002124 ERROR
        ELSE IF a = <<16384, 8516>> THEN ld(ZERO)            \* 0x40002144 RXTO
        ELSE IF transfer_type = LOAD /\ a = <<16384, 9496>> THEN ld(env.chr)   \* 0x40002518 RXD
        ELSE IF transfer_type = STORE /\ a = <<16384, 9500>> THEN ld(ZERO)     \* 0x4000251c TXD
        ELSE IF transfer_type = LOAD /\ a = <<16384, 53504>> THEN ld(<<0, 1>>) \* 0x4000d100 RNG.VALRDY
        ELSE IF transfer_type = LOAD /\ a = <<16384, 54536>> THEN ld(<<0, env.rnd>>) \* 0x4000d508 RNG.VALUE
        ELSE IF transfer_type = LOAD /\ a = <<16385, 58368>> THEN ld(<<0, 1>>) \* 0x4001e400 NVMC.READY
        ELSE IF transfer_type = STORE /\ a = <<16385, 58628>>                  \* 0x4001e504 NVMC.CONFIG
        THEN Ret(ERR_OK, [m EXCEPT !.image_writable = (reg # ZERO)], reg)
        ELSE IF transfer_type = STORE /\ a = <<16385, 58632>>                  \* 0x4001e508 NVMC.ERASEPAGE
        THEN IF and32(reg, Word(m.pagesize - 1)) # ZERO \/ geInt(reg, m.image_size)
             THEN Ret(ERR_MEM, m, reg)
             ELSE Ret(ERR_OK, memset_image(m, reg[1] * H16 + reg[2], m.pagesize), reg)
        ELSE ld(ZERO)                                        \* unknown peripheral

\* ptr as the regions other than the peripherals leave it
select_ptr(m, address, region, ra) ==
  IF region = 0 THEN region0_ptr(m, address, ra)
  ELSE IF region = 1 THEN (IF ra < m.mem_size THEN [buf |-> "mem", off |-> ra] ELSE NULL)
  ELSE IF region = 7 THEN region7_ptr(m, address)
  ELSE NULL

\* the early returns of regions 0 and 7 that need no pointer
early_return(m, address, transfer_type, region, ra) ==
  \/ region = 0 /\ ~(ra < m.image_size) /\ transfer_type = LOAD
       /\ address = <<4096, 304>>                             \* 0x10000130, FICR
  \/ region = 7 /\ address = <<57344, 57600>> /\ transfer_type = STORE    \* 0xe000e100
  \/ region = 7 /\ address = <<57344, 57728>> /\ transfer_type = STORE    \* 0xe000e180
  \/ region = 7 /\ address[1] = 61440 /\ (address[2] \div 16) * 16 = 4064
       /\ transfer_type = LOAD                                \* 0xf0000fe0..f

transfer_region(m, address, transfer_type, reg, width, signextend, env, region, ra) ==
  IF early_return(m, address, transfer_type, region, ra)
  THEN Ret(ERR_OK, m, IF transfer_type = LOAD THEN ZERO ELSE reg)
  ELSE IF region = 0 /\ transfer_type = STORE /\ region0_ptr(m, address, ra) # NULL
  THEN flash_store(m, address, region0_ptr(m, address, ra), reg, width, env)
  ELSE IF region = 2
  THEN periph(m, address, transfer_type, reg, width, env)
  ELSE transfer_ptr(m, select_ptr(m, address, region, ra), transfer_type, reg, width,
                    signextend, env)

machine_transfer(m, address, transfer_type, reg, width, signextend, env) ==
  transfer_region(m, address, transfer_type, reg, width, signextend, env,
                  address[1] \div 8192,                         \* address >> 29
                  (address[1] % 8192) * H16 + address[2])       \* address & (0xffffffff >> 3)


----------------------------------------------------------------------------
(* Flag arithmetic kernel.  Each returns the machine (psr updated when      *)
(* setflags) and the 32-bit value.                                         *)

MV(m, v) == [m |-> m, val |-> v]
B2N(b) == IF b THEN 1 ELSE 0

le32(a, b) == a[1] < b[1] \/ (a[1] = b[1] /\ a[2] <= b[2])

\* x >> count & 1 where count is a uint32_t that may be >= 32 (undefined in C)
shrbit(src, count, env) ==
  IF count \in 0..31 THEN bit32(src, count)
  ELSE IF env.shift = "mask5" THEN bit32(src, count % 32)
  ELSE 0

\* ((int32_t)w) >> n for 0 <= n <= 31
asr32(w, n) == IF neg32(w) THEN not32(shr32(not32(w), n)) ELSE shr32(w, n)

machine_instr_lsl(m, src, shift, setflags, env) ==
  LET m1 == IF setflags /\ shift # 0
            THEN [m EXCEPT !.psr.c = (shrbit(src, 32 - shift, env) = 1)]
            ELSE m
  IN  IF shift >= 32 THEN MV(m1, ZERO) ELSE MV(m1, shl32(src, shift))

machine_instr_lsr(m, src, shift, setflags, env) ==
  IF shift >= 32
  THEN MV(IF setflags THEN [m EXCEPT !.psr.c = (bit32(src, 31) = 1)] ELSE m, ZERO)
  ELSE MV(IF shift # 0 /\ setflags
          THEN [m EXCEPT !.psr.c = (bit32(src, shift - 1) = 1)] ELSE m,
          shr32(src, shift))

machine_instr_asr(m, src, shift, setflags, env) ==
  IF shift >= 32
  THEN MV(IF setflags THEN [m EXCEPT !.psr.c = neg32(src)] ELSE m, asr32(asr32(src, 16), 16))
  ELSE MV(IF setflags
          THEN [m EXCEPT !.psr.c = (shrbit(asr32(src, 0), shift - 1, env) = 1)] ELSE m,
          asr32(src, shift))

add_flags(m, res, result64s, c) ==
  [m EXCEPT !.psr.n = neg32(res), !.psr.z = (res = ZERO), !.psr.c = c,
            !.psr.v = (neg32(res) # neg64(result64s))]

\* machine_instr_add with the carry taken from the 32-bit result's sign
machine_instr_add_signcarry(m, a, b, setflags) ==
  MV(IF setflags
     THEN add_flags(m, add32(a, b), add64(s64(a), s64(b)), neg32(add32(a, b)))
     ELSE m, add32(a, b))

machine_instr_add(m, a, b, setflags) ==
  LET res       == add32(a, b)
      result64s == add64(s64(a), s64(b))
      result64u == add64(u64(a), u64(b))
  IN  MV(IF setflags THEN add_flags(m, res, result64s, result64u[1] >= 1) ELSE m, res)

machine_instr_adc(m, a, b, setflags) ==
  LET cin       == B2N(m.psr.c)
      res       == addi(add32(a, b), cin)
      result64s == addc64(add64(s64(a), s64(b)), cin)
      result64u == addc64(add64(u64(a), u64(b)), cin)
  IN  MV(IF setflags THEN add_flags(m, res, result64s, result64u[1] >= 1) ELSE m, res)

\* machine_instr_sub with C as a borrow flag: psr.c = (int64_t)result64u < 0
machine_instr_sub_borrow(m, a, b, setflags) ==
  MV(IF setflags
     THEN add_flags(m, sub32(a, b), sub64(s64(a), s64(b)), neg64(sub64(u64(a), u64(b))))
     ELSE m, sub32(a, b))

machine_instr_sub(m, a, b, setflags) ==
  LET res       == sub32(a, b)
      result64s == sub64(s64(a), s64(b))
      result64u == sub64(u64(a), u64(b))
  IN  MV(IF setflags THEN add_flags(m, res, result64s, ~neg64(result64u)) ELSE m, res)

machine_instr_sbc(m, a, b, setflags) ==
  LET nc        == B2N(~m.psr.c)
      res       == subi(sub32(a, b), nc)
      result64s == addc64(sub64(s64(a), s64(b)), -nc)
      result64u == addc64(sub64(u64(a), u64(b)), -nc)
  IN  MV(IF setflags THEN add_flags(m, res, result64s, ~neg64(result64u)) ELSE m, res)

\* 1 if true, 0 if false, -1 if invalid
machine_condition(m, condition) ==
  LET p == m.psr
  IN  CASE condition = 0  -> B2N(p.z)
        [] condition = 1  -> B2N(~p.z)
        [] condition = 2  -> B2N(p.c)
        [] condition = 3  -> B2N(~p.c)
        [] condition = 4  -> B2N(p.n)
        [] condition = 5  -> B2N(~p.n)
        [] condition = 8  -> B2N(p.c /\ ~p.z)
        [] condition = 9  -> B2N(~p.c \/ p.z)
        [] condition = 10 -> B2N(p.n = p.v)
        [] condition = 11 -> B2N(p.n # p.v)
        [] condition = 12 -> B2N(~p.z /\ p.n = p.v)
        [] condition = 13 -> B2N(p.z \/ p.n # p.v)
        [] OTHER          -> -1

----------------------------------------------------------------------------
(* Backtrace bookkeeping *)

RECURSIVE unwind(_, _, _)
unwind(bt, depth, sp) ==
  IF depth > 0 /\ le32(bt[depth - 1].sp, sp) THEN unwind(bt, depth - 1, sp) ELSE depth

\* machine_add_backtrace with the bound test off by one: call_depth <= MACHINE_BACKTRACE_LEN
machine_add_backtrace_upto(m, pc, sp) ==
  LET d1 == m.call_depth + 1
  IN  IF d1 >= 0 /\ d1 <= MACHINE_BACKTRACE_LEN
      THEN LET d2 == unwind(m.backtrace, d1, sp)
           IN  [m EXCEPT !.call_depth = d2,
                         !.backtrace = [@ EXCEPT ![d2] = [pc |-> pc, sp |-> sp]],
                         !.bt_last = d2]
      ELSE [m EXCEPT !.call_depth = d1]

machine_add_backtrace(m, pc, sp) ==
  LET d1 == m.call_depth + 1
  IN  IF d1 >= 0 /\ d1 < MACHINE_BACKTRACE_LEN
      THEN LET d2 == unwind(m.backtrace, d1, sp)
           IN  [m EXCEPT !.call_depth = d2,
                         !.backtrace = [@ EXCEPT ![d2] = [pc |-> pc, sp |-> sp]],
                         !.bt_last = d2]
      ELSE [m EXCEPT !.call_depth = d1]

----------------------------------------------------------------------------
(* Multiple load/store helpers.  reg is a register number, reg_list a bit  *)
(* mask; they return err and the machine.                                  *)

EM(e, m) == [err |-> e, m |-> m]
inlist(reg_list, i) == (reg_list \div 2^i) % 2 = 1
setreg(m, r, v) == [m EXCEPT !.regs[r] = v]

RECURSIVE stmdb_loop(_, _, _, _, _)
\* after the transfer t of register i to address a
stmdb_next(t, a, reg_list, i, env) ==
  IF t.err # ERR_OK THEN [err |-> ERR_MEM, m |-> t.m, address |-> a]
  ELSE stmdb_loop(t.m, a, reg_list, i - 1, env)

stmdb_loop(m, address, reg_list, i, env) ==
  IF i < 0 THEN [err |-> ERR_OK, m |-> m, address |-> address]
  ELSE IF inlist(reg_list, i)
  THEN stmdb_next(machine_transfer(m, subi(address, 4), STORE, m.regs[i], WIDTH_32, FALSE, env),
                  subi(address, 4), reg_list, i, env)
  ELSE stmdb_loop(m, address, reg_list, i - 1, env)

stmdb_done(r, reg, wback) ==
  IF r.err # ERR_OK THEN EM(ERR_MEM, r.m)
  ELSE EM(ERR_OK, IF wback THEN setreg(r.m, reg, r.address) ELSE r.m)

machine_instr_stmdb(m, reg, reg_list, wback, env) ==
  stmdb_done(stmdb_loop(m, m.regs[reg], reg_list, 14, env), reg, wback)

RECURSIVE stmia_loop(_, _, _, _, _)
stmia_next(t, address, reg_list, i, env) ==
  IF t.err # ERR_OK THEN [err |-> ERR_MEM, m |-> t.m, address |-> address]
  ELSE stmia_loop(t.m, addi(address, 4), reg_list, i + 1, env)

stmia_loop(m, address, reg_list, i, env) ==
  IF i > 15 THEN [err |-> ERR_OK, m |-> m, address |-> address]
  ELSE IF inlist(reg_list, i)
  THEN stmia_next(machine_transfer(m, address, STORE, m.regs[i], WIDTH_32, FALSE, env),
                  address, reg_list, i, env)
  ELSE stmia_loop(m, address, reg_list, i + 1, env)

stmia_done(r, reg, wback) ==
  IF r.err # ERR_OK THEN EM(ERR_MEM, r.m)
  ELSE EM(ERR_OK, IF wback THEN setreg(r.m, reg, r.address) ELSE r.m)

machine_instr_stmia(m, reg, reg_list, wback, env) ==
  stmia_done(stmia_loop(m, m.regs[reg], reg_list, 0, env), reg, wback)

RECURSIVE ldmdb_loop(_, _, _, _, _)
ldmdb_next(t, a, reg_list, i, env) ==
  IF t.err # ERR_OK THEN [err |-> ERR_MEM, m |-> t.m, address |-> a]
  ELSE ldmdb_loop(setreg(t.m, i, t.val), a, reg_list, i - 1, env)

ldmdb_loop(m, address, reg_list, i, env) ==
  IF i < 0 THEN [err |-> ERR_OK, m |-> m, address |-> address]
  ELSE IF inlist(reg_list, i)
  THEN ldmdb_next(machine_transfer(m, subi(address, 4), LOAD, m.regs[i], WIDTH_32, FALSE, env),
                  subi(address, 4), reg_list, i, env)
  ELSE ldmdb_loop(m, address, reg_list, i - 1, env)

ldmdb_done(r, reg, wback) ==
  IF r.err # ERR_OK THEN EM(ERR_MEM, r.m)
  ELSE EM(ERR_OK, IF wback THEN setreg(r.m, reg, r.address) ELSE r.m)

machine_instr_ldmdb(m, reg, reg_list, wback, env) ==
  ldmdb_done(ldmdb_loop(m, m.regs[reg], reg_list, 14, env), reg, wback)

RECURSIVE ldmia_loop(_, _, _, _, _)
ldmia_next(t, address, reg_list, i, env) ==
  IF t.err # ERR_OK THEN [err |-> ERR_MEM, m |-> t.m, address |-> address]
  ELSE ldmia_loop(setreg(t.m, i, t.val), addi(address, 4), reg_list, i + 1, env)

ldmia_loop(m, address, reg_list, i, env) ==
  IF i > 15 THEN [err |-> ERR_OK, m |-> m, address |-> address]
  ELSE IF inlist(reg_list, i)
  THEN ldmia_next(machine_transfer(m, address, LOAD, m.regs[i], WIDTH_32, FALSE, env),
                  address, reg_list, i, env)
  ELSE ldmia_loop(m, address, reg_list, i + 1, env)

ldmia_done(r, reg, wback) ==
  IF r.err # ERR_OK THEN EM(ERR_MEM, r.m)
  ELSE EM(ERR_OK, IF wback THEN setreg(r.m, reg, r.address) ELSE r.m)

machine_instr_ldmia(m, reg, reg_list, wback, env) ==
  ldmia_done(ldmia_loop(m, m.regs[reg], reg_list, 0, env), reg, wback)


----------------------------------------------------------------------------
(* machine_step: decode and execute one instruction *)

PC == 15
LR == 14
SP == 13

nz(m, v) == [m EXCEPT !.psr.n = neg32(v), !.psr.z = (v = ZERO)]

\* *reg_dst = value, then N and Z from *reg_dst when setflags
finish(mv, rd, setflags) ==
  LET m1 == setreg(mv.m, rd, mv.val)
  IN  EM(ERR_OK, IF setflags THEN nz(m1, mv.val) ELSE m1)

\* if (machine_transfer(machine, address, type, &regs[r], width, sx)) return ERR_MEM;
xfer_done(t, r) ==
  IF t.err # ERR_OK THEN EM(ERR_MEM, t.m) ELSE EM(ERR_OK, setreg(t.m, r, t.val))

xfer(m, address, transfer_type, r, width, signextend, env) ==
  xfer_done(machine_transfer(m, address, transfer_type, m.regs[r], width, signextend, env), r)

align4(w) == <<w[1], (w[2] \div 4) * 4>>                 \* w & ~3UL
addsigned(w, k) == IF k >= 0 THEN addi(w, k) ELSE subi(w, -k)

RECURSIVE mulacc(_, _, _)
mulacc(a, b, i) ==
  IF i > 31 THEN ZERO
  ELSE add32(IF bit32(b, i) = 1 THEN shl32(a, i) ELSE ZERO, mulacc(a, b, i + 1))
mul32(a, b) == mulacc(a, b, 0)

bits(x, shift, mask) == (x \div 2^shift) % (mask + 1)    \* (x >> shift) & mask

\* Formats 1 and 2: move shifted register, add/subtract
fmt_shift_addsub(m, instruction, inITBlock, env) ==
  LET rd == bits(instruction, 0, 7)
      rs == bits(instruction, 3, 7)
      op == bits(instruction, 11, 3)
      setflags == ~inITBlock
      offset5 == bits(instruction, 6, 31)
      field == bits(instruction, 6, 7)
      flag_imm == bits(instruction, 10, 1) = 1
      value == IF flag_imm THEN Word(field) ELSE m.regs[field]
  IN  IF op = 0 THEN finish(machine_instr_lsl(m, m.regs[rs], offset5, setflags, env), rd, setflags)
      ELSE IF op = 1
      THEN finish(machine_instr_lsr(m, m.regs[rs], IF offset5 = 0 THEN 32 ELSE offset5, setflags, env), rd, setflags)
      ELSE IF op = 2
      THEN finish(machine_instr_asr(m, m.regs[rs], IF offset5 = 0 THEN 32 ELSE offset5, setflags, env), rd, setflags)
      ELSE IF bits(instruction, 9, 1) = 0
      THEN finish(machine_instr_add(m, m.regs[rs], value, setflags), rd, setflags)
      ELSE finish(machine_instr_sub(m, m.regs[rs], value, setflags), rd, setflags)

\* Format 3: move/compare/add/subtract immediate
fmt_imm(m, instruction, inITBlock) ==
  LET imm == Word(bits(instruction, 0, 255))
      r   == bits(instruction, 8, 7)
      op  == bits(instruction, 11, 3)
      setflags == ~inITBlock
  IN  IF op = 0 THEN finish(MV(m, imm), r, setflags)
      ELSE IF op = 1 THEN EM(ERR_OK, machine_instr_sub(m, m.regs[r], imm, TRUE).m)
      ELSE IF op = 2 THEN finish(machine_instr_add(m, m.regs[r], imm, setflags), r, setflags)
      ELSE finish(machine_instr_sub(m, m.regs[r], imm, setflags), r, setflags)

\* Format 4: ALU operations
fmt_alu(m, instruction, inITBlock, env) ==
  LET rd == bits(instruction, 0, 7)
      rs == bits(instruction, 3, 7)
      op == bits(instruction, 6, 15)
      setflags == ~inITBlock
      d == m.regs[rd]
      s == m.regs[rs]
  IN  CASE op = 0  -> finish(MV(m, and32(d, s)), rd, setflags)
        [] op = 1  -> finish(MV(m, xor32(d, s)), rd, setflags)
        [] op = 2  -> finish(machine_instr_lsl(m, d, s[2] % 256, setflags, env), rd, setflags)
        [] op = 3  -> finish(machine_instr_lsr(m, d, s[2] % 256, setflags, env), rd, setflags)
        [] op = 4  -> finish(machine_instr_asr(m, d, s[2] % 256, setflags, env), rd, setflags)
        [] op = 5  -> finish(machine_instr_adc(m, d, s, setflags), rd, setflags)
        [] op = 6  -> finish(machine_instr_sbc(m, d, s, setflags), rd, setflags)
        [] op = 7  -> EM(ERR_UNDEFINED, m)                      \* ROR
        [] op = 8  -> EM(ERR_OK, nz(m, and32(s, d)))            \* TST
        [] op = 9  -> finish(machine_instr_sub(m, ZERO, s, setflags), rd, setflags)
        [] op = 10 -> EM(ERR_OK, machine_instr_sub(m, d, s, TRUE).m)   \* CMP
        [] op = 11 -> EM(ERR_OK, machine_instr_add(m, d, s, TRUE).m)   \* CMN
        [] op = 12 -> finish(MV(m, or32(d, s)), rd, setflags)
        [] op = 13 -> finish(MV(m, mul32(d, s)), rd, setflags)
        [] op = 14 -> finish(MV(m, and32(d, not32(s))), rd, setflags)
        [] op = 15 -> finish(MV(m, not32(s)), rd, setflags)

\* Format 5: hi register operations / branch exchange
fmt_hireg(m, instruction) ==
  LET rd0 == bits(instruction, 0, 7)
      h2  == bits(instruction, 6, 1)
      h1  == bits(instruction, 7, 1)
      op  == bits(instruction, 8, 3)
      rs  == bits(instruction, 3, 7) + h2 * 8
      rd  == rd0 + h1 * 8
      pc  == m.regs[PC]
  IN  IF op = 3
      THEN IF rd0 # 0 THEN EM(ERR_UNDEFINED, m)
           ELSE LET m1 == IF h1 = 1 THEN machine_add_backtrace(m, subi(pc, 3), m.regs[SP]) ELSE m
                    next_lr == pc
                    m2 == setreg(m1, PC, m1.regs[rs])
                IN  EM(ERR_OK, IF h1 = 1 THEN setreg(m2, LR, next_lr) ELSE m2)
      ELSE IF op = 0 THEN EM(ERR_OK, setreg(m, rd, add32(m.regs[rd], m.regs[rs])))
      ELSE IF op = 1 THEN EM(ERR_OK, machine_instr_sub(m, m.regs[rd], m.regs[rs], TRUE).m)
      ELSE EM(ERR_OK, setreg(m, rd, IF rd = PC THEN or32(m.regs[rs], <<0, 1>>) ELSE m.regs[rs]))

\* Formats 7 and 8: load/store with register offset, sign-extended byte/halfword
fmt_ldst_reg(m, instruction, env) ==
  LET b9  == bits(instruction, 9, 1) = 1
      b10 == bits(instruction, 10, 1) = 1
      b11 == bits(instruction, 11, 1) = 1
  IN  xfer(m, add32(m.regs[bits(instruction, 3, 7)], m.regs[bits(instruction, 6, 7)]),
           IF b9 /\ b10 THEN LOAD                            \* LDSB, LDSH
           ELSE IF b11 THEN LOAD ELSE STORE,
           bits(instruction, 0, 7),
           IF ~b9 THEN (IF b10 THEN WIDTH_8 ELSE WIDTH_32)   \* STR, STRB, LDR, LDRB
           ELSE IF b10 /\ ~b11 THEN WIDTH_8                  \* LDSB
           ELSE WIDTH_16,                                    \* STRH, LDRH, LDSH
           b9 /\ b10, env)

\* Format 9: load/store with immediate offset
fmt_ldst_imm(m, instruction, env) ==
  LET byte == bits(instruction, 12, 1) = 1
      offset5 == bits(instruction, 6, 31)
  IN  xfer(m, addi(m.regs[bits(instruction, 3, 7)], IF byte THEN offset5 ELSE offset5 * 4),
           IF bits(instruction, 11, 1) = 1 THEN LOAD ELSE STORE,
           bits(instruction, 0, 7), IF byte THEN WIDTH_8 ELSE WIDTH_32, FALSE, env)

\* Format 10: load/store halfword
fmt_ldst_half(m, instruction, env) ==
  xfer(m, addi(m.regs[bits(instruction, 3, 7)], bits(instruction, 6, 31) * 2),
       IF bits(instruction, 11, 1) = 1 THEN LOAD ELSE STORE,
       bits(instruction, 0, 7), WIDTH_16, FALSE, env)

\* Format 11: SP-relative load/store
fmt_ldst_sp(m, instruction, env) ==
  xfer(m, addi(m.regs[SP], bits(instruction, 0, 255) * 4),
       IF bits(instruction, 11, 1) = 1 THEN LOAD ELSE STORE,
       bits(instruction, 8, 7), WIDTH_32, FALSE, env)

\* Format 12: load address
fmt_adr(m, instruction) ==
  LET word8 == bits(instruction, 0, 255)
      value == IF bits(instruction, 11, 1) = 1 THEN m.regs[SP]
               ELSE align4(addi(m.regs[PC], 2))
  IN  EM(ERR_OK, setreg(m, bits(instruction, 8, 7), addi(value, word8 * 4)))

\* Format 13: add offset to stack pointer
fmt_addsp(m, instruction) ==
  LET offset6 == bits(instruction, 0, 63)
  IN  IF bits(instruction, 7, 1) = 1
      THEN EM(ERR_OK, setreg(m, SP, subi(m.regs[SP], offset6 * 4)))
      ELSE EM(ERR_OK, setreg(m, SP, addi(m.regs[SP], offset6 * 4)))

\* SXTH, SXTB, UXTH, UXTB
fmt_extend(m, instruction) ==
  LET rd == bits(instruction, 0, 7)
      s  == m.regs[bits(instruction, 3, 7)]
      opcode == bits(instruction, 6, 3)
  IN  EM(ERR_OK, setreg(m, rd,
        CASE opcode = 0 -> sext16(s)
          [] opcode = 1 -> sext8(s)
          [] opcode = 2 -> <<0, s[2]>>
          [] opcode = 3 -> <<0, s[2] % 256>>))

\* CBZ / CBNZ
fmt_cbz(m, instruction) ==
  LET r == m.regs[bits(instruction, 0, 7)]
      imm5 == bits(instruction, 3, 31)
      flag_i == bits(instruction, 9, 1)
      flag_nz == bits(instruction, 11, 1) = 1
  IN  IF (r = ZERO) = ~flag_nz
      THEN EM(ERR_OK, setreg(m, PC, addi(m.regs[PC], flag_i * 64 + imm5 * 2 + 2)))
      ELSE EM(ERR_OK, m)

\* REV
fmt_rev(m, instruction) ==
  LET s == m.regs[bits(instruction, 3, 7)]
  IN  IF bits(instruction, 6, 3) = 0
      THEN EM(ERR_OK, setreg(m, bits(instruction, 0, 7),
                <<ByteOf(s, 0) * 256 + ByteOf(s, 1), ByteOf(s, 2) * 256 + ByteOf(s, 3)>>))
      ELSE EM(ERR_UNDEFINED, m)

\* BKPT
fmt_bkpt(m, instruction) ==
  LET imm8 == bits(instruction, 0, 255)
  IN  IF imm8 = 129 THEN EM(ERR_OK, [m EXCEPT !.loglevel = LOG_INSTRS])
      ELSE IF imm8 = 128 THEN EM(ERR_OK, [m EXCEPT !.loglevel = LOG_ERROR])
      ELSE EM(ERR_BREAK, m)

\* IT and NOP-compatible hints
fmt_it(m, instruction) ==
  LET firstcond == bits(instruction, 4, 15)
      mask == bits(instruction, 0, 15)
      state == firstcond * 16 + mask
  IN  IF mask = 0 THEN EM(ERR_OK, m)
      ELSE EM(ERR_OK, [m EXCEPT !.psr.it1 = state % 4, !.psr.it2 = state \div 4])

\* Format 14: push/pop registers
\* Format 14 with PUSH {.., lr} entered into the backtrace
fmt_pushpop_traced(m, instruction, env) ==
  LET reg_list == bits(instruction, 0, 255)
      flag_pc_lr == bits(instruction, 8, 1)
  IN  IF bits(instruction, 11, 1) = 1
      THEN machine_instr_ldmia(m, SP, reg_list + flag_pc_lr * 2^15, TRUE, env)
      ELSE machine_instr_stmdb(IF flag_pc_lr = 1
                               THEN machine_add_backtrace(m, subi(m.regs[LR], 1), m.regs[SP])
                               ELSE m,
                               SP, reg_list + flag_pc_lr * 2^14, TRUE, env)

fmt_pushpop(m, instruction, env) ==
  LET reg_list == bits(instruction, 0, 255)
      flag_pc_lr == bits(instruction, 8, 1)
  IN  IF bits(instruction, 11, 1) = 1
      THEN machine_instr_ldmia(m, SP, reg_list + flag_pc_lr * 2^15, TRUE, env)
      ELSE machine_instr_stmdb(m, SP, reg_list + flag_pc_lr * 2^14, TRUE, env)

\* Format 15: multiple load/store; the helpers' results are not looked at
fmt_ldmstm(m, instruction, env) ==
  LET reg_list == bits(instruction, 0, 255)
      reg_base_num == bits(instruction, 8, 7)
  IN  IF reg_list = 0 THEN EM(ERR_UNDEFINED, m)
      ELSE IF bits(instruction, 11, 1) = 1
      THEN EM(ERR_OK, machine_instr_ldmia(m, reg_base_num, reg_list,
                                          ~inlist(reg_list, reg_base_num), env).m)
      ELSE EM(ERR_OK, machine_instr_stmia(m, reg_base_num, reg_list, TRUE, env).m)

\* Format 16: conditional branch
fmt_bcond(m, instruction) ==
  LET offset8 == bits(instruction, 0, 255)
      offset == (IF offset8 >= 128 THEN offset8 - 256 ELSE offset8) * 2 + 2
      res == machine_condition(m, bits(instruction, 8, 15))
  IN  IF res < 0 THEN EM(ERR_UNDEFINED, m)
      ELSE IF res # 0 THEN EM(ERR_OK, setreg(m, PC, addsigned(m.regs[PC], offset)))
      ELSE EM(ERR_OK, m)

\* Format 18: unconditional branch
fmt_b(m, instruction) ==
  LET offset11 == bits(instruction, 0, 2047)
      offset == (IF offset11 >= 1024 THEN offset11 - 2048 ELSE offset11) * 2
  IN  EM(ERR_OK, setreg(m, PC, addsigned(m.regs[PC], offset + 2)))


\* machine->image16[pc / 2]
fetch16(m, pc, env) ==
  rdptr(m, [buf |-> "image", off |-> 2 * ((pc[1] * H16 + pc[2]) \div 2)], WIDTH_16, env)[2]

fetch_oob(m, pc) ==
  [m EXCEPT !.oob = @ \/ 2 * ((pc[1] * H16 + pc[2]) \div 2) + 2 > m.image_size]

undefined32(m) == EM(ERR_UNDEFINED, setreg(m, PC, subi(m.regs[PC], 2)))   \* *pc -= 2

\* BL, B.W
t32_bl(m, hw1, hw2) ==
  LET imm10 == hw1 % 1024
      imm11 == hw2 % 2048
      flag_link == bits(hw2, 14, 1) = 1
      raw == imm10 * 4096 + imm11 * 2
      pc_offset == IF raw >= 2^21 THEN raw - 2^22 ELSE raw
      pc == m.regs[PC]
      m1 == machine_add_backtrace(m, subi(pc, 5), m.regs[SP])
      m2 == IF flag_link THEN setreg(m1, LR, pc) ELSE m1
  IN  EM(ERR_OK, setreg(m2, PC, addsigned(pc, pc_offset)))

\* the end of machine_alu_op: N and Z from *reg_dst when setflags is still set
alu_done(m, rd, setflags) == EM(ERR_OK, IF setflags THEN nz(m, m.regs[rd]) ELSE m)

\* *reg_dst = machine_instr_xxx(...), then the end of machine_alu_op
alu_put(mv, rd, setflags) == alu_done(setreg(mv.m, rd, mv.val), rd, setflags)

\* rd and rn are the numbers of reg_dst and reg_src
machine_alu_op(m, op, rd, rn, value, setflags) ==
  LET s == m.regs[rn]
  IN  CASE op = 0  -> IF rd = PC /\ setflags THEN EM(ERR_OK, nz(m, and32(s, value)))      \* TST
                      ELSE alu_put(MV(m, and32(s, value)), rd, setflags)                  \* AND
        [] op = 1  -> alu_put(MV(m, and32(s, not32(value))), rd, setflags)                \* BIC
        [] op = 2  -> alu_put(MV(m, IF rn = PC THEN value ELSE or32(s, value)), rd, setflags)
        [] op = 3  -> alu_put(MV(m, IF rn = PC THEN not32(value) ELSE or32(s, not32(value))),
                              rd, setflags)
        [] op = 4  -> IF rd = PC /\ setflags THEN EM(ERR_OK, nz(m, xor32(s, value)))      \* TEQ
                      ELSE alu_put(MV(m, xor32(s, value)), rd, setflags)                  \* EOR
        [] op = 8  -> IF rd = PC /\ setflags
                      THEN EM(ERR_OK, machine_instr_add(m, s, value, TRUE).m)             \* CMN
                      ELSE alu_put(machine_instr_add(m, s, value, setflags), rd, setflags)
        [] op = 10 -> alu_put(machine_instr_adc(m, s, value, setflags), rd, setflags)     \* ADC
        [] op = 11 -> alu_put(machine_instr_sbc(m, s, value, setflags), rd, setflags)     \* SBC
        [] op = 14 -> alu_put(machine_instr_sub(m, value, s, setflags), rd, setflags)     \* RSB
        [] op = 13 -> IF rd = PC /\ setflags
                      THEN EM(ERR_OK, machine_instr_sub(m, s, value, TRUE).m)             \* CMP
                      ELSE alu_put(machine_instr_sub(m, s, value, setflags), rd, setflags)
        [] OTHER   -> EM(ERR_UNDEFINED, m)

\* err = machine_alu_op(...); if (err != ERR_OK) { *pc -= 2; return err; }
alu32(r) == IF r.err # ERR_OK THEN EM(r.err, setreg(r.m, PC, subi(r.m.regs[PC], 2))) ELSE r

\* the operand mv of a 32-bit data processing instruction goes through machine_alu_op
t32_alu(mv, op, rd, rn, flag_set) == alu32(machine_alu_op(mv.m, op, rd, rn, mv.val, flag_set))

\* Data processing instructions with constant shift
t32_shift(m, hw1, hw2, env) ==
  LET src2 == m.regs[bits(hw2, 0, 15)]                          \* Rm
      imm5 == bits(hw2, 12, 7) * 4 + bits(hw2, 6, 3)
      type == bits(hw2, 4, 3)
      flag_set == bits(hw1, 4, 1) = 1
  IN  IF type = 3 THEN undefined32(m)                           \* ROR, RRX
      ELSE t32_alu(CASE type = 0 -> machine_instr_lsl(m, src2, imm5, flag_set, env)
                     [] type = 1 -> machine_instr_lsr(m, src2, IF imm5 = 0 THEN 32 ELSE imm5,
                                                      flag_set, env)
                     [] type = 2 -> machine_instr_asr(m, src2, IF imm5 = 0 THEN 32 ELSE imm5,
                                                      flag_set, env),
                   bits(hw1, 5, 15), bits(hw2, 8, 15), bits(hw1, 0, 15), flag_set)

\* (x >> n) | (x << (32 - n)) for 1 <= n <= 31
ror32(x, n) == or32(shr32(x, n), shl32(x, 32 - n))

\* ThumbExpandImmWithC as written in machine_step: the value, and the machine
\* with psr.c set from a rotated constant when flag_set
expand_imm(m, imm12, imm8, flag_set) ==
  IF imm12 \div 2^10 = 0
  THEN MV(m, CASE bits(imm12, 8, 3) = 0 -> <<0, imm8>>
               [] bits(imm12, 8, 3) = 1 -> <<imm8, imm8>>
               [] bits(imm12, 8, 3) = 2 -> <<imm8 * 256, imm8 * 256>>
               [] bits(imm12, 8, 3) = 3 -> <<imm8 * 257, imm8 * 257>>)
  ELSE LET imm32 == ror32(<<0, 128 + (imm8 % 128)>>, imm12 \div 2^7)
       IN  MV(IF flag_set THEN [m EXCEPT !.psr.c = neg32(imm32)] ELSE m, imm32)

\* Data processing with modified 12-bit immediate
t32_imm(m, hw1, hw2) ==
  LET imm8  == bits(hw2, 0, 255)
      imm12 == imm8 + bits(hw2, 12, 7) * 256 + bits(hw1, 10, 1) * 2048
      flag_set == bits(hw1, 4, 1) = 1
  IN  t32_alu(expand_imm(m, imm12, imm8, flag_set),
              bits(hw1, 5, 15), bits(hw2, 8, 15), bits(hw1, 0, 15), flag_set)

\* 32-bit encodings; hw2 has been fetched and PC points behind it
\* Load and store double: the base is written back before the two transfers
t32_ldrd_xfer(m1, address, transfer_type, rt, rt2, env) ==
  LET r1 == xfer(m1, address, transfer_type, rt, WIDTH_32, FALSE, env)
  IN  IF r1.err # ERR_OK THEN r1
      ELSE xfer(r1.m, addi(address, 4), transfer_type, rt2, WIDTH_32, FALSE, env)

t32_ldrd(m, hw1, hw2, env) ==
  LET flag_index == bits(hw1, 8, 1) = 1
      flag_up    == bits(hw1, 7, 1) = 1
      flag_wback == bits(hw1, 5, 1) = 1
      flag_load  == bits(hw1, 4, 1) = 1
      rn         == bits(hw1, 0, 15)
      imm8       == hw2 % 256
      base       == IF rn = PC THEN align4(m.regs[rn]) ELSE m.regs[rn]
      offset_addr == IF flag_up THEN addi(base, imm8) ELSE subi(base, imm8)
      address    == IF flag_index THEN offset_addr
                    ELSE IF rn = PC THEN <<m.regs[rn][1], (m.regs[rn][2] \div 2) * 2>>
                    ELSE m.regs[rn]
  IN  IF flag_index \/ flag_wback
      THEN t32_ldrd_xfer(IF flag_wback THEN setreg(m, rn, offset_addr) ELSE m, address,
                         IF flag_load THEN LOAD ELSE STORE,
                         bits(hw2, 12, 15), bits(hw2, 8, 15), env)
      ELSE IF ~flag_up THEN undefined32(m)                      \* load and store exclusive
      ELSE EM(UNMODELLED, m)                                    \* TBB, TBH

\* Load and store single data item
t32_ldst_at(m, hw1, hw2, width, env) ==
  LET rn   == bits(hw1, 0, 15)
      rt   == bits(hw2, 12, 15)
      flag_signed == bits(hw1, 8, 1) = 1
      transfer_type == IF bits(hw1, 4, 1) = 1 THEN LOAD ELSE STORE
      imm12 == hw2 % 4096
      imm8  == hw2 % 256
      offset_addr == IF bits(hw2, 9, 1) = 1 THEN addi(m.regs[rn], imm8)
                     ELSE subi(m.regs[rn], imm8)
  IN  IF rn = PC
      THEN IF width # WIDTH_32 \/ transfer_type # LOAD THEN undefined32(m)
           ELSE xfer(m, IF bits(hw1, 7, 1) = 1
                        THEN addi(align4(subi(m.regs[PC], 1)), imm12)
                        ELSE subi(align4(subi(m.regs[PC], 1)), imm12),
                     transfer_type, rt, width, flag_signed, env)
      ELSE IF bits(hw1, 7, 1) = 1                               \* T3: immediate
      THEN xfer(m, addi(m.regs[rn], imm12), transfer_type, rt, width, flag_signed, env)
      ELSE IF bits(hw2, 6, 63) = 0                              \* T2: register
      THEN xfer(m, add32(m.regs[rn], shl32(m.regs[bits(hw2, 0, 15)], bits(hw2, 4, 3))),
                transfer_type, rt, width, flag_signed, env)
      ELSE IF bits(hw2, 11, 1) = 1                              \* T4: immediate, indexed
      THEN xfer(IF bits(hw2, 8, 1) = 1 THEN setreg(m, rn, offset_addr) ELSE m,
                IF bits(hw2, 10, 1) = 1 THEN offset_addr ELSE m.regs[rn],
                transfer_type, rt, width, flag_signed, env)
      ELSE undefined32(m)

t32_ldst(m, hw1, hw2, env) ==
  LET size == bits(hw1, 5, 3)
  IN  IF size = 2
      THEN IF bits(hw1, 8, 1) = 1 THEN undefined32(m)
           ELSE t32_ldst_at(m, hw1, hw2, WIDTH_32, env)
      ELSE IF size = 0 THEN t32_ldst_at(m, hw1, hw2, WIDTH_8, env)
      ELSE IF size = 1 THEN t32_ldst_at(m, hw1, hw2, WIDTH_16, env)
      ELSE undefined32(m)

machine_step32(m, hw1, hw2, env) ==
  IF hw1 \div 2^11 = 29                                        \* 0b11101
  THEN IF hw1 \div 64 = 932 THEN EM(UNMODELLED, m)             \* 0b1110100100 LDMDB/STMDB
       ELSE IF hw1 \div 64 = 930 THEN EM(UNMODELLED, m)        \* 0b1110100010 LDMIA.W/STMIA.W
       ELSE IF and16(hw1 \div 64, 1017) = 929 THEN t32_ldrd(m, hw1, hw2, env)   \* LDRD/STRD, TBB/TBH
       ELSE IF hw1 \div 2^9 = 117 THEN t32_shift(m, hw1, hw2, env)    \* 0b1110101
       ELSE undefined32(m)
  ELSE IF hw1 \div 2^11 = 30 /\ hw2 \div 2^15 = 0
       THEN IF bits(hw1, 9, 1) = 0 THEN t32_imm(m, hw1, hw2)
            ELSE EM(UNMODELLED, m)                              \* plain immediate, bitfield
       ELSE IF hw1 \div 16 = 3899 /\ hw2 \div 2^14 = 2 THEN EM(ERR_OK, m)  \* special control operations
       ELSE IF hw1 \div 2^11 = 30 /\ and16(hw2 \div 2^11, 23) = 23 THEN t32_bl(m, hw1, hw2)
       ELSE IF hw1 \div 2^11 = 30 /\ and16(hw2 \div 2^12, 13) = 8 THEN EM(UNMODELLED, m)  \* B<c>.W, MRS
       ELSE IF hw1 \div 2^9 = 124 THEN t32_ldst(m, hw1, hw2, env)    \* 0b1111100 load/store single
       ELSE IF hw1 \div 2^9 = 125 THEN EM(UNMODELLED, m)       \* 0b1111101 register data processing
       ELSE undefined32(m)

machine_is_32bit_instruction(instruction) ==
  instruction \div 2^11 = 29 \/ instruction \div 2^12 = 15

\* the decode chain of machine_step, in the order of the source
decode(m, instruction, inITBlock, env) ==
  LET i == instruction
  IN  IF i \div 2^13 = 0 THEN fmt_shift_addsub(m, i, inITBlock, env)
      ELSE IF i \div 2^13 = 1 THEN fmt_imm(m, i, inITBlock)
      ELSE IF i \div 2^10 = 16 THEN fmt_alu(m, i, inITBlock, env)
      ELSE IF i \div 2^10 = 17 THEN fmt_hireg(m, i)
      ELSE IF i \div 2^11 = 9                                   \* Format 6: PC-relative load
      THEN xfer(m, addi(align4(addi(m.regs[PC], 2)), bits(i, 0, 255) * 4), LOAD,
                bits(i, 8, 7), WIDTH_32, FALSE, env)
      ELSE IF i \div 2^12 = 5 THEN fmt_ldst_reg(m, i, env)
      ELSE IF i \div 2^13 = 3 THEN fmt_ldst_imm(m, i, env)
      ELSE IF i \div 2^12 = 8 THEN fmt_ldst_half(m, i, env)
      ELSE IF i \div 2^12 = 9 THEN fmt_ldst_sp(m, i, env)
      ELSE IF i \div 2^12 = 10 THEN fmt_adr(m, i)
      ELSE IF i \div 256 = 176 THEN fmt_addsp(m, i)             \* 0b10110000
      ELSE IF i \div 256 = 178 THEN fmt_extend(m, i)            \* 0b10110010
      ELSE IF and16(i \div 256, 245) = 177 THEN fmt_cbz(m, i)   \* & 0b11110101 == 0b10110001
      ELSE IF and16(i, 65519) = 46690 THEN EM(ERR_OK, m)        \* (i & 0xffef) == 0xb662 CPSID/CPSIE
      ELSE IF i \div 256 = 186 THEN fmt_rev(m, i)               \* 0b10111010
      ELSE IF i \div 256 = 190 THEN fmt_bkpt(m, i)              \* 0b10111110
      ELSE IF i \div 256 = 191 THEN fmt_it(m, i)                \* 0b10111111
      ELSE IF i \div 2^12 = 11 /\ bits(i, 9, 3) = 2 THEN fmt_pushpop(m, i, env)
      ELSE IF i \div 2^12 = 12 THEN fmt_ldmstm(m, i, env)
      ELSE IF i \div 2^12 = 13 THEN fmt_bcond(m, i)
      ELSE IF i \div 2^11 = 28 THEN fmt_b(m, i)
      ELSE IF i \div 2^11 = 29 \/ i \div 2^12 = 15
      THEN LET pc == m.regs[PC]
               hw2 == fetch16(m, pc, env)
           IN  machine_step32(setreg(fetch_oob(m, pc), PC, addi(pc, 2)), i, hw2, env)
      ELSE EM(ERR_UNDEFINED, m)

\* prefetch comparing PC itself, not PC - 1, with the breakpoint slots
prefetch_pc(m) ==
  IF \E k \in 0..3 : m.regs[PC] = m.hwbreak[k] THEN ERR_BREAK
  ELSE IF m.regs[PC] = SENTINEL THEN ERR_EXIT
  ELSE IF gtInt(m.regs[PC], m.image_size - 1) THEN ERR_PC
  ELSE IF m.regs[PC][2] % 2 # 1 THEN ERR_PC
  ELSE ERR_OK

\* the checks of machine_step before the fetch
prefetch(m) ==
  LET pc == m.regs[PC]
  IN  IF \E k \in 0..3 : subi(pc, 1) = m.hwbreak[k] THEN ERR_BREAK
      ELSE IF pc = SENTINEL THEN ERR_EXIT
      ELSE IF gtInt(pc, m.image_size - 1) THEN ERR_PC
      ELSE IF pc[2] % 2 # 1 THEN ERR_PC
      ELSE ERR_OK

\* the IT state after this instruction: state = (state & 0xe0) | ((state << 1) & 0x1f),
\* cleared when its low four bits are zero
it_advance(state) ==
  IF (and16(state, 224) + and16(state * 2, 31)) % 16 = 0 THEN 0
  ELSE and16(state, 224) + and16(state * 2, 31)

it_store(m, newstate) == [m EXCEPT !.psr.it1 = newstate % 4, !.psr.it2 = newstate \div 4]

it_state(m) == m.psr.it1 + 4 * m.psr.it2

\* m: the instruction is fetched, PC points behind it and the IT state is advanced;
\* res: machine_condition's answer inside an IT block
step_exec(m, instruction, inITBlock, res, env) ==
  IF inITBlock /\ res < 0 THEN EM(ERR_UNDEFINED, m)
  ELSE IF inITBlock /\ res = 0
  THEN EM(ERR_OK, IF machine_is_32bit_instruction(instruction)
                  THEN setreg(m, PC, addi(m.regs[PC], 2)) ELSE m)
  ELSE decode(m, instruction, inITBlock, env)

\* m1: the instruction is fetched and PC points behind it
step_fetched(m1, instruction, env) ==
  step_exec(IF m1.psr.it2 # 0 THEN it_store(m1, it_advance(it_state(m1))) ELSE m1,
            instruction, m1.psr.it2 # 0,
            IF m1.psr.it2 # 0
            THEN machine_condition(it_store(m1, it_advance(it_state(m1))), it_state(m1) \div 16)
            ELSE 1,
            env)

machine_step(m, env) ==
  IF prefetch(m) # ERR_OK THEN EM(prefetch(m), [m EXCEPT !.rejected = FALSE])
  ELSE step_fetched([setreg(m, PC, addi(m.regs[PC], 2)) EXCEPT !.rejected = FALSE],
                    fetch16(m, m.regs[PC], env), env)


----------------------------------------------------------------------------
(* machine_create, machine_load, machine_reset *)

Regs == 0..15

machine_create(image_size, pagesize, ram_size, loglevel) ==
  [regs           |-> [r \in Regs |-> ZERO],
   psr            |-> [n |-> FALSE, z |-> FALSE, c |-> FALSE, v |-> FALSE,
                       t |-> 1, it1 |-> 0, it2 |-> 0],
   image8         |-> [i \in 0..(image_size - 1) |-> 255],
   image_size     |-> image_size,
   image_writable |-> FALSE,
   pagesize       |-> pagesize,
   mem8           |-> [i \in 0..(ram_size - 1) |-> 0],
   mem_size       |-> ram_size,
   uicr8          |-> [i \in 0..7 |-> 0],
   nvic8          |-> [i \in 0..31 |-> 0],
   scb8           |-> [i \in 0..3 |-> 0],
   call_depth     |-> 1,
   backtrace      |-> [i \in 0..(MACHINE_BACKTRACE_LEN - 1) |-> [pc |-> ZERO, sp |-> ZERO]],
   bt_last        |-> 0,       \* index of the backtrace entry written last (not a field
                               \* of machine_t)
   last_sp        |-> ZERO,
   hwbreak        |-> [k \in 0..3 |-> ZERO],
   loglevel       |-> loglevel,
   halt           |-> FALSE,
   oob            |-> FALSE,   \* an access has left its buffer (not a field of machine_t)
   rejected       |-> FALSE]   \* machine_transfer has returned ERR_MEM during the last
                               \* machine_step (not a field of machine_t)

\* image is a sequence of bytes
machine_load(m, image) ==
  LET n == IF Len(image) > m.image_size THEN m.image_size ELSE Len(image)
  IN  [m EXCEPT !.image8 = [i \in DOMAIN m.image8 |-> IF i < n THEN image[i + 1] ELSE m.image8[i]]]

image32(m, k) == rdptr(m, [buf |-> "image", off |-> 4 * k], WIDTH_32, [byte |-> 255])

machine_reset(m) ==
  LET sp == image32(m, 0)
      pc == image32(m, 1)
  IN  [m EXCEPT !.regs = [@ EXCEPT ![SP] = sp, ![LR] = SENTINEL, ![PC] = pc],
                !.backtrace = [@ EXCEPT ![1] = [pc |-> subi(pc, 1), sp |-> sp]],
                !.bt_last = 1]

----------------------------------------------------------------------------
(* Firmware images: sequences of halfwords, assembled by hand *)

image_size0 == NumPages * 2^PageShift
pagesize0   == 2^PageShift
mem_size0   == 4 * MemWords

RECURSIVE Bytes(_)
Bytes(hws) ==
  IF hws = <<>> THEN <<>>
  ELSE <<Head(hws) % 256, Head(hws) \div 256>> \o Bytes(Tail(hws))

LIT(w) == <<w[2], w[1]>>                     \* a literal word, low halfword first

LDR_PC(rd, imm8)   == 18432 + rd * 256 + imm8            \* 0x4800  ldr rd, [pc, #imm8*4]
STR_I(rd, rb)      == 24576 + rb * 8 + rd                \* 0x6000  str rd, [rb]
STRB_I(rd, rb)     == 28672 + rb * 8 + rd                \* 0x7000  strb rd, [rb]
STRH_I(rd, rb)     == 32768 + rb * 8 + rd                \* 0x8000  strh rd, [rb]
STMIA_1(rb, rd)    == 49152 + rb * 256 + 2^rd            \* 0xc000  stmia rb!, {rd}
LDR_I(rd, rb)      == 26624 + rb * 8 + rd                \* 0x6800  ldr rd, [rb]
MOVS_I(rd, imm8)   == 8192 + rd * 256 + imm8             \* 0x2000  movs rd, #imm8
CMP_I(rd, imm8)    == 10240 + rd * 256 + imm8            \* 0x2800  cmp rd, #imm8
ADDS_I(rd, imm8)   == 12288 + rd * 256 + imm8            \* 0x3000  adds rd, #imm8
SUBS_I(rd, imm8)   == 14336 + rd * 256 + imm8            \* 0x3800  subs rd, #imm8
ADDS_R(rd, rs, rn) == 6144 + rn * 64 + rs * 8 + rd       \* 0x1800  adds rd, rs, rn
SUBS_R(rd, rs, rn) == 6656 + rn * 64 + rs * 8 + rd       \* 0x1a00  subs rd, rs, rn
ALU(op, rd, rs)    == 16384 + op * 64 + rs * 8 + rd      \* 0x4000  format 4
LSLS_I(rd, rs, n)  == n * 64 + rs * 8 + rd               \* 0x0000  lsls rd, rs, #n
BX(rm)             == 18176 + rm * 8                     \* 0x4700  bx rm
BLX(rm)            == 18304 + rm * 8                     \* 0x4780  blx rm
MOV_PC(rm)         == 18055 + rm * 8                     \* 0x4687  mov pc, rm
ADD_PC(rm)         == 17543 + rm * 8                     \* 0x4487  add pc, rm
MOV_SP(rm)         == 18053 + rm * 8                     \* 0x4685  mov sp, rm
PUSH(list)         == 46080 + list                       \* 0xb400  push {list}
POP_PC(list)       == 48384 + list                       \* 0xbd00  pop {list, pc}
POP(list)          == 48128 + list                       \* 0xbc00  pop {list}
LDRH_I(rd, rb)     == 34816 + rb * 8 + rd                \* 0x8800  ldrh rd, [rb]
LDRB_I(rd, rb)     == 30720 + rb * 8 + rd                \* 0x7800  ldrb rd, [rb]
LDMIA_1(rb, rd)    == 51200 + rb * 256 + 2^rd            \* 0xc800  ldmia rb!, {rd}
ADD_SP(imm7)       == 45056 + imm7                       \* 0xb000  add sp, #imm7*4
SUB_SP(imm7)       == 45184 + imm7                       \* 0xb080  sub sp, #imm7*4
BCOND(cond, off8)  == 53248 + cond * 256 + off8          \* 0xd000  b<cond>
BEQ(off8)          == BCOND(0, off8)
BL_FWD(n)          == << 61440, 63488 + n >>             \* 0xf000 0xf800+imm11  bl .+4+2n
BL_BACK(n)         == << 63487, 65536 - n >>             \* 0xf7ff 0xf800+imm11  bl .+4-2n
\* 0xe840 0x0000  ldrd/strd rt, rt2, [rn, #imm8] with P, U, W, L
T32_LDRD(p, u, w, l, rn, rt, rt2, imm8) ==
  << 59456 + p * 256 + u * 128 + w * 32 + l * 16 + rn, rt * 4096 + rt2 * 256 + imm8 >>
\* 0xf840 0x0800  ldr/str rt, [rn, #imm8] with P, U, W, L (T4)
T32_LDST4(p, u, w, l, rn, rt, imm8) ==
  << 63552 + l * 16 + rn, rt * 4096 + 2048 + p * 1024 + u * 512 + w * 256 + imm8 >>
\* 0xf000 0x0000  <op>{s} rd, rn, #imm12 (modified immediate)
T32_IMM(op, sf, rn, rd, imm12) ==
  << 61440 + (imm12 \div 2048) * 1024 + op * 32 + sf * 16 + rn,
     ((imm12 \div 256) % 8) * 4096 + rd * 256 + (imm12 % 256) >>
\* 0xea00 0x0000  <op>{s} rd, rn, rm, <type> #imm5
T32_SHIFT(op, sf, rn, rd, rm, type, imm5) ==
  << 59904 + op * 32 + sf * 16 + rn,
     (imm5 \div 4) * 4096 + rd * 256 + (imm5 % 4) * 64 + type * 16 + rm >>
IT(firstcond, mask) == 48896 + firstcond * 16 + mask     \* 0xbf00  it<x><y><z> firstcond
ADR(rd, imm8)      == 40960 + rd * 256 + imm8            \* 0xa000  add rd, pc, #imm8*4
B(off11)           == 57344 + off11                      \* 0xe000  b
B_SELF             == B(2046)                            \* 0xe7fe  b .
BX_LR              == BX(14)

RAM0 == <<8192, 0>>                          \* 0x20000000
NVMC_CONFIG    == <<16385, 58628>>           \* 0x4001e504
NVMC_ERASEPAGE == <<16385, 58632>>           \* 0x4001e508
UICR0          == <<4096, 4608>>             \* 0x10001200
DATA0 == 4 * 12                              \* offset of the data words of the images
DATAW == <<3855, 13141>>                     \* 0x0f0f3355, the data word at DATA0

Vectors(entry) == LIT(addi(RAM0, mem_size0)) \o LIT(entry)

\* ldr r2,=NVMC.CONFIG; ldr r3,=cfg; str r3,[r2]; ldr r0,=addr; ldr r1,=val;
\* <st> r1 -> [r0]; str r3,[r0]; bx lr; literals; data
StoreImage(p) ==
  Vectors(<<0, 9>>) \o
  << LDR_PC(2, 3), LDR_PC(3, 4), STR_I(3, 2), LDR_PC(0, 4), LDR_PC(1, 4),
     p.st, STR_I(3, 0), BX_LR >> \o
  LIT(NVMC_CONFIG) \o LIT(p.cfg) \o LIT(p.addr) \o LIT(p.val) \o
  <<0, 0, 0, 0>> \o LIT(DATAW) \o LIT(DATAW) \o LIT(<<H16 - 1, 255>>) \o LIT(DATAW)

StoreKinds == {STR_I(1, 0), STRB_I(1, 0), STRH_I(1, 0), STMIA_1(0, 1)}
StoreCfgs  == {ZERO, <<H16 - 1, 61455>>}                     \* 0, 0xfffff00f
StoreAddrs == {<<0, DATA0>>, <<0, DATA0 + 2>>, <<0, image_size0>>, UICR0, addi(RAM0, 4)}
StoreVals  == {<<255, 21845>>}                               \* 0x00ff5555
EraseVals  == {ZERO, Word(pagesize0), Word(3 * pagesize0), Word(pagesize0 + 8),
               Word(image_size0)}

StorePrograms ==
  [kind : {"store"}, st : StoreKinds, cfg : StoreCfgs, addr : StoreAddrs, val : StoreVals]
  \cup [kind : {"store"}, st : {STR_I(1, 0), STMIA_1(0, 1)}, cfg : StoreCfgs,
        addr : {NVMC_ERASEPAGE}, val : EraseVals]

\* movs r0,#t; <jump through r0>; b .   -- jumps to an even or odd address
\* variants that pop the PC: push {r0}; pop {pc}
JumpImage(p) ==
  Vectors(<<0, 9>>) \o
  (IF p.how = "pop"
   THEN << MOVS_I(0, p.target), PUSH(1), POP_PC(0), B_SELF, B_SELF, B_SELF >>
   ELSE << MOVS_I(0, p.target),
           CASE p.how = "bx" -> BX(0) [] p.how = "blx" -> BLX(0)
             [] p.how = "mov" -> MOV_PC(0) [] p.how = "add" -> ADD_PC(0),
           B_SELF, B_SELF, B_SELF, B_SELF >>)

JumpPrograms ==
  [kind : {"jump"}, how : {"bx", "blx", "mov", "add", "pop"}, target : {16, 17}]

\* the reset vector itself: odd or even
ResetImage(p) == Vectors(<<0, p.entry>>) \o << MOVS_I(0, 7), MOVS_I(1, 5), ADDS_R(0, 0, 1), BX_LR >>
ResetPrograms == [kind : {"reset"}, entry : {8, 9}]

\* a tight branch loop, and a loop of three instructions
LoopImage(p) ==
  Vectors(<<0, 9>>) \o
  (IF p.len = 1 THEN << B_SELF >>
   ELSE << MOVS_I(0, 1), CMP_I(0, 1), B(2044) >>)            \* 0xe7fc  b back to offset 8

LoopPrograms == [kind : {"loop"}, len : {1, 3}]

\* ldr r0,=addr; mov sp,r0 (before a push or pop); <op> on [r0] or the stack;
\* b .; the literal
FaultImage(p) ==
  Vectors(<<0, 9>>) \o
  << LDR_PC(0, 1),
     IF p.op \in {"push", "pop"} THEN MOV_SP(0) ELSE MOVS_I(1, 0),
     CASE p.op = "ldr"   -> LDR_I(1, 0)   [] p.op = "ldrb"  -> LDRB_I(1, 0)
       [] p.op = "str"   -> STR_I(1, 0)   [] p.op = "ldmia" -> LDMIA_1(0, 1)
       [] p.op = "stmia" -> STMIA_1(0, 1) [] p.op = "push"  -> PUSH(2)
       [] p.op = "pop"   -> POP(2),
     B_SELF >> \o LIT(p.addr)

\* addresses: no memory (0x60000000), SRAM, the read-only image
FaultPrograms ==
  [kind : {"fault"}, op : {"ldr", "ldrb", "str", "ldmia", "stmia", "push", "pop"},
   addr : {<<24576, 0>>, addi(RAM0, 8), <<0, 32>>}]

\* movs r0,#1; <code>; <hw2>; b .   -- code is an encoding machine_step does
\* not know: ROR r0,r1 (0x41c8), 0xb800, REV16 r0,r0 (0xba40), STMIA r0!,{}
\* (0xc000), and the 32-bit first halfwords 0xe800 and 0xffff (erased flash)
UndefImage(p) == Vectors(<<0, 9>>) \o << MOVS_I(0, 1), p.code, p.hw2, B_SELF >>

UndefPrograms ==
  [kind : {"undef"}, code : {ALU(7, 0, 1), 47104, 47680, 49152, 59392, 65535},
   hw2 : {0, 65535}]

\* an image that fills the flash: movs r0,#target; bx r0; b . up to the last
\* halfword, which is p.last -- jumps to the end of the image and behind it
PcImage(p) ==
  Vectors(<<0, 9>>) \o << MOVS_I(0, p.target), BX(0) >> \o
  [i \in 1..(image_size0 \div 2 - 7) |-> B_SELF] \o << p.last >>

PcPrograms ==
  [kind : {"pc"},
   target : {12, image_size0 - 2, image_size0 - 1, image_size0, image_size0 + 1},
   last : {MOVS_I(1, 5), 65535}]

\* ldr r0,=addr; ldr r1,=val; str r1,[r0]; ldr r2,[r0]; b .; literals
\* -- a word stored to and loaded from the interrupt priority registers
NvicImage(p) ==
  Vectors(<<0, 9>>) \o
  << LDR_PC(0, 2), LDR_PC(1, 3), STR_I(1, 0), LDR_I(2, 0), B_SELF, B_SELF >> \o
  LIT(p.addr) \o LIT(p.val)

NVIC_IP == <<57344, 58368>>                  \* 0xe000e400

NvicPrograms ==
  [kind : {"nvic"}, addr : {addi(NVIC_IP, 4 * k) : k \in 0..7}, val : {<<4660, 22136>>}]

\* ldr r0,=a; ldr r1,=b; adds or subs r2,r0,r1; b<cond> over the next
\* instruction; b . (not taken); b . (taken); literals
CondImage(p) ==
  Vectors(<<0, 9>>) \o
  << LDR_PC(0, 2), LDR_PC(1, 3),
     IF p.op = "adds" THEN ADDS_R(2, 0, 1) ELSE SUBS_R(2, 0, 1),
     BCOND(p.cond, 0), B_SELF, B_SELF >> \o
  LIT(p.a) \o LIT(p.b)

CondWords == {ZERO, <<0, 1>>, <<32767, H16 - 1>>, <<32768, 0>>, <<H16 - 1, H16 - 1>>}

CondPrograms ==
  [kind : {"cond"}, op : {"adds", "subs"}, a : CondWords, b : CondWords, cond : 0..15]

\* ldr r0,=a; ldr r1,=b; <set or clear C>; adcs or sbcs in one of three forms;
\* b .; literals
\*   r16: adcs r0, r1          imm: adcs r2, r0, #k      reg: adcs r2, r0, r1, <shift>
\* k is the imm12 field, or type * 32 + imm5 of the shift
AdcImage(p) ==
  Vectors(<<0, 9>>) \o
  << LDR_PC(0, 2), LDR_PC(1, 3),
     IF p.cin THEN ALU(10, 0, 0) ELSE ADDS_R(2, 2, 2) >> \o              \* cmp r0,r0 / adds r2,r2,r2
  (CASE p.form = "r16" -> << ALU(IF p.sbc THEN 6 ELSE 5, 0, 1), B_SELF >>
     [] p.form = "imm" -> T32_IMM(IF p.sbc THEN 11 ELSE 10, 1, 0, 2, p.k)
     [] p.form = "reg" -> T32_SHIFT(IF p.sbc THEN 11 ELSE 10, 1, 0, 2, 1, p.k \div 32, p.k % 32)) \o
  << B_SELF >> \o LIT(p.a) \o LIT(p.b)

\* #0, #255, #0x7f800000 (0x4ff), #0x80000000 (0x400)
AdcImms == {0, 255, 1279, 1024}
\* lsl #0, lsl #1, lsr #1, asr #32
AdcShifts == {0, 1, 33, 64}

AdcPrograms ==
  [kind : {"adc"}, form : {"r16"}, sbc : BOOLEAN, a : CondWords, b : CondWords,
   cin : BOOLEAN, k : {0}]
  \cup [kind : {"adc"}, form : {"imm"}, sbc : BOOLEAN, a : CondWords, b : {ZERO},
        cin : BOOLEAN, k : AdcImms]
  \cup [kind : {"adc"}, form : {"reg"}, sbc : BOOLEAN, a : CondWords, b : CondWords,
        cin : BOOLEAN, k : AdcShifts]

\* ldr r0,=a; ldr r1,=b; adds r2,r0,r1; it<x><y><z> firstcond;
\* add r3,pc,#0; add r4,pc,#0; add r5,pc,#0; add r6,pc,#0; add r7,pc,#0; b .
\* -- each of r3..r7 is non-zero once its instruction was executed; none of
\* them touches a flag
ItImage(p) ==
  Vectors(<<0, 9>>) \o
  << LDR_PC(0, 4), LDR_PC(1, 5), ADDS_R(2, 0, 1), IT(p.firstcond, p.mask),
     ADR(3, 0), ADR(4, 0), ADR(5, 0), ADR(6, 0), ADR(7, 0), B_SELF >> \o
  LIT(p.a) \o LIT(p.b)

\* every firstcond but NV with every mask, AL only with masks that do not
\* ask for its inverse
ItPrograms ==
  [kind : {"it"}, firstcond : 0..13, mask : 1..15,
   a : {ZERO, <<32767, H16 - 1>>, <<H16 - 1, H16 - 1>>}, b : {ZERO, <<0, 1>>}]
  \cup [kind : {"it"}, firstcond : {14}, mask : {8, 4, 2, 1},
        a : {ZERO, <<32767, H16 - 1>>, <<H16 - 1, H16 - 1>>}, b : {ZERO, <<0, 1>>}]

\* ldr r0,=sp; mov sp,r0; add|sub sp,#imm7*4; b .
SpImage(p) ==
  Vectors(<<0, 9>>) \o
  << LDR_PC(0, 1), MOV_SP(0),
     IF p.neg THEN SUB_SP(p.imm7) ELSE ADD_SP(p.imm7), B_SELF >> \o
  LIT(p.sp)

\* every immediate in both directions, on stack pointers in the middle and
\* at both ends of the address space
SpPrograms ==
  [kind : {"sp"}, neg : BOOLEAN, imm7 : 0..127,
   sp : {addi(RAM0, mem_size0), <<0, 8>>, <<H16 - 1, H16 - 8>>}]

\* two calls in a row, the second from a higher, the same or a lower stack:
\*      sub sp,#4; bl f; <add sp,#4 | add sp,#0 | sub sp,#4>;
\*      <bl g | ldr r1,=g; blx r1>; b .
\*   f: push {list, lr}; pop {list, pc}
\*   g: bx lr
BtImage(p) ==
  Vectors(<<0, 9>>) \o
  << SUB_SP(1) >> \o BL_FWD(5) \o
  << CASE p.adj = "add" -> ADD_SP(1) [] p.adj = "none" -> ADD_SP(0) [] p.adj = "sub" -> SUB_SP(1) >> \o
  (IF p.second = "bl" THEN BL_FWD(4) ELSE << LDR_PC(1, 3), BLX(1) >>) \o
  << B_SELF, B_SELF, PUSH(256 + p.list), POP_PC(p.list), BX_LR, B_SELF >> \o
  LIT(<<0, 29>>)

BtPrograms ==
  [kind : {"bt"}, adj : {"add", "none", "sub"}, second : {"bl", "blx"}, list : 0..3]

\* ldr r0,=addr; ldr r1,=0x00ff5555; <op> r1,[r0]; b .
EdgeImage(p) ==
  Vectors(<<0, 9>>) \o
  << LDR_PC(0, 1), LDR_PC(1, 2),
     CASE p.op = "ldr"  -> LDR_I(1, 0)  [] p.op = "ldrh" -> LDRH_I(1, 0)
       [] p.op = "ldrb" -> LDRB_I(1, 0) [] p.op = "str"  -> STR_I(1, 0)
       [] p.op = "strh" -> STRH_I(1, 0) [] p.op = "strb" -> STRB_I(1, 0),
     B_SELF >> \o LIT(p.addr) \o LIT(<<255, 21845>>)

\* the last four bytes of the image and of the SRAM, and the byte behind
EdgeBack == 0..4
EdgePrograms ==
  [kind : {"edge"}, op : {"ldr", "ldrh", "ldrb", "str", "strh", "strb"},
   addr : {subi(Word(image_size0), k) : k \in EdgeBack}
          \cup {subi(addi(RAM0, mem_size0), k) : k \in EdgeBack}]

\* ldr r0,=NVMC.ERASEPAGE; ldr r1,=v; str r1,[r0]; b .
GeomImage(p) ==
  Vectors(<<0, 9>>) \o
  << LDR_PC(0, 1), LDR_PC(1, 2), STR_I(1, 0), B_SELF >> \o
  LIT(NVMC_ERASEPAGE) \o LIT(Word(p.v))

\* flash geometries machine_create accepts: page sizes below, at and above the
\* image size, image sizes that are and are not a multiple of the page size
GeomPrograms ==
  [kind : {"geom"}, image_size : {image_size0, image_size0 + pagesize0, 2 * image_size0},
   pagesize : {pagesize0, 2 * pagesize0, image_size0, 2 * image_size0},
   v : {k * pagesize0 : k \in 0..(NumPages + 1)}]

\* ldr r0,=addr; ldr r1,=0x00ff5555; movs r2,#7; mov sp,r0; <op>; b .
\* -- transfers of two words, or of one word with a base written back
PartialImage(p) ==
  Vectors(<<0, 9>>) \o
  << LDR_PC(0, 3), LDR_PC(1, 4), MOVS_I(2, 7), MOV_SP(0) >> \o
  (CASE p.op = "push"     -> << PUSH(6), B_SELF >>               \* push {r1, r2}
     [] p.op = "pop"      -> << POP(6), B_SELF >>                \* pop {r1, r2}
     [] p.op = "strd"     -> T32_LDRD(1, 1, 1, 0, 0, 1, 2, 4)    \* strd r1, r2, [r0, #4]!
     [] p.op = "ldrd"     -> T32_LDRD(0, 1, 1, 1, 0, 1, 2, 8)    \* ldrd r1, r2, [r0], #8
     [] p.op = "str_pre"  -> T32_LDST4(1, 1, 1, 0, 0, 1, 4)      \* str r1, [r0, #4]!
     [] p.op = "ldr_post" -> T32_LDST4(0, 1, 1, 1, 0, 1, 4)) \o   \* ldr r1, [r0], #4
  << B_SELF, B_SELF >> \o LIT(p.addr) \o LIT(<<255, 21845>>)

\* bases at both ends of the SRAM and in no memory (0x60000000)
PartialPrograms ==
  [kind : {"partial"}, op : {"push", "pop", "strd", "ldrd", "str_pre", "ldr_post"},
   addr : {RAM0, addi(RAM0, 4), addi(RAM0, mem_size0 - 8), addi(RAM0, mem_size0 - 4),
           addi(RAM0, mem_size0), <<24576, 0>>}]

\* nested calls, each with a deeper stack:
\*      movs r0,#depth
\*   f: sub sp,#4; subs r0,#1; beq done; bl f
\*   done: bx r0            -- r0 = 0: the PC becomes invalid
CallImage(p) ==
  Vectors(<<0, 9>>) \o
  << MOVS_I(0, p.depth), SUB_SP(1), SUBS_I(0, 1), BEQ(1) >> \o BL_BACK(5) \o
  << BX(0), B_SELF >>

CallPrograms ==
  [kind : {"call"}, depth : {2, MACHINE_BACKTRACE_LEN - 1, MACHINE_BACKTRACE_LEN + 2}]

\* ldr r0,=a; ldr r1,=b; <set or clear C>; <op>; bx lr; literals
AluImage(p) ==
  Vectors(<<0, 9>>) \o
  << LDR_PC(0, 2), LDR_PC(1, 3),
     IF p.cin THEN ALU(10, 0, 0) ELSE ADDS_R(2, 2, 2),       \* cmp r0,r0 / adds r2,r2,r2
     CASE p.op = "adds" -> ADDS_R(2, 0, 1)
       [] p.op = "subs" -> SUBS_R(2, 0, 1)
       [] p.op = "cmp"  -> ALU(10, 0, 1)
       [] p.op = "cmpi" -> CMP_I(0, p.b[2] % 256)
       [] p.op = "lsls" -> ALU(2, 0, 1),
     BX_LR, B_SELF >> \o
  LIT(p.a) \o LIT(p.b)

MaxShift == 40
AluWords == {ZERO, <<0, 1>>, <<0, H16 - 1>>, <<1, 0>>, <<32767, H16 - 1>>, <<32768, 0>>,
             <<32768, 1>>, <<H16 - 1, H16 - 1>>}
ShiftCounts == {<<0, n>> : n \in 0..MaxShift} \cup {<<1, 256>>, <<0, 255>>}

AluPrograms ==
  [kind : {"alu"}, op : {"adds", "subs", "cmp", "cmpi"}, a : AluWords, b : AluWords,
   cin : BOOLEAN]
  \cup [kind : {"alu"}, op : {"lsls"}, a : AluWords, b : ShiftCounts, cin : BOOLEAN]

Programs == StorePrograms \cup JumpPrograms \cup ResetPrograms \cup LoopPrograms

Image(p) ==
  Bytes(CASE p.kind = "store" -> StoreImage(p)
          [] p.kind = "jump"  -> JumpImage(p)
          [] p.kind = "reset" -> ResetImage(p)
          [] p.kind = "loop"  -> LoopImage(p)
          [] p.kind = "alu"   -> AluImage(p)
          [] p.kind = "fault" -> FaultImage(p)
          [] p.kind = "undef" -> UndefImage(p)
          [] p.kind = "pc"    -> PcImage(p)
          [] p.kind = "call"  -> CallImage(p)
          [] p.kind = "nvic"  -> NvicImage(p)
          [] p.kind = "cond"  -> CondImage(p)
          [] p.kind = "adc"   -> AdcImage(p)
          [] p.kind = "it"    -> ItImage(p)
          [] p.kind = "sp"    -> SpImage(p)
          [] p.kind = "bt"    -> BtImage(p)
          [] p.kind = "edge"  -> EdgeImage(p)
          [] p.kind = "geom"  -> GeomImage(p)
          [] p.kind = "partial" -> PartialImage(p))

\* the -flash and -pagesize flags
FlashSize(p) == IF p.kind = "geom" THEN p.image_size ELSE image_size0
FlashPageSize(p) == IF p.kind = "geom" THEN p.pagesize ELSE pagesize0

Boot(p) ==
  machine_reset(machine_load(machine_create(FlashSize(p), FlashPageSize(p), mem_size0, LOG_ERROR),
                             Image(p)))


----------------------------------------------------------------------------------------------------------------------------------------
(* The two threads: the one inside machine_run and the debugger *)

LogRank(l) == IF l = LOG_INSTRS THEN 4 ELSE 0

\* what the guest can observe of a machine_t
Guest(m) ==
  [regs |-> m.regs, psr |-> m.psr, image8 |-> m.image8, mem8 |-> m.mem8,
   uicr8 |-> m.uicr8, nvic8 |-> m.nvic8, scb8 |-> m.scb8,
   image_writable |-> m.image_writable]

NoBreak == [k \in 0..3 |-> ZERO]

\* the uninterrupted execution takes the step the machine takes
ShadowStep(env) ==
  shadow' = [machine_step([shadow EXCEPT !.hwbreak = machine.hwbreak], env).m
               EXCEPT !.hwbreak = NoBreak]

\* a machine_step call on the machine counts when it fetches an instruction
Count ==
  icount' = IF prefetch(machine) = ERR_OK /\ icount < MaxSteps THEN icount + 1 ELSE icount

Before == prev' = [guest |-> Guest(machine), fetched |-> prefetch(machine) = ERR_OK]

Resume ==
  phase' = IF phase = "halted" /\ prefetch(machine) = ERR_OK THEN "resumed"
           ELSE IF phase \in {"reset", "read"} THEN "none"
           ELSE phase

\* gdbServer: Machine{halted: false}, the server waits for a packet; main is
\* about to call machine_run
GdbInit == [main |-> "loop", srv |-> "recv", halted |-> FALSE,
            last |-> [pkt |-> "none", during |-> "none"]]

\* no machine_readregs call yet
NoRead == [num |-> 0, written |-> 0, vals |-> <<>>, overread |-> FALSE]

\* the state after machine_create, machine_load and machine_reset
Start(programs) ==
  /\ prog \in programs
  /\ machine = Boot(prog)
  /\ runpc = "idle"
  /\ result = ERR_OK
  /\ steperr = ERR_OK
  /\ icount = 0
  /\ shadow = machine
  /\ prev = [guest |-> Guest(machine), fetched |-> FALSE]
  /\ phase = "none"
  /\ gdb = GdbInit
  /\ readout = NoRead

Init == Start(Programs)

\* machine_run is entered
RunCall ==
  /\ runpc = "idle"
  /\ runpc' = "top"
  /\ UNCHANGED <<machine, result, steperr, icount, shadow, prev, phase, prog, gdb, readout>>

\* the loop of machine_run without the test of the halt flag
RunTestHalt_blind ==
  /\ runpc = "top"
  /\ runpc' = "exec"
  /\ UNCHANGED <<machine, result, steperr, icount, shadow, prev, phase, prog, gdb, readout>>

\* if (machine->halt)
RunTestHalt ==
  /\ runpc = "top"
  /\ runpc' = IF machine.halt THEN "clear" ELSE "exec"
  /\ UNCHANGED <<machine, result, steperr, icount, shadow, prev, phase, prog, gdb, readout>>

\* returning ERR_HALT with the PC moved back over the last instruction
RunClearHalt_rewind ==
  /\ runpc = "clear"
  /\ machine' = [machine EXCEPT !.halt = FALSE, !.regs[PC] = subi(@, 2)]
  /\ runpc' = "idle"
  /\ result' = ERR_HALT
  /\ phase' = "halted"
  /\ UNCHANGED <<steperr, icount, shadow, prev, prog, gdb, readout>>

\* machine->halt = false; return ERR_HALT;
RunClearHalt ==
  /\ runpc = "clear"
  /\ machine' = [machine EXCEPT !.halt = FALSE]
  /\ runpc' = "idle"
  /\ result' = ERR_HALT
  /\ phase' = "halted"
  /\ UNCHANGED <<steperr, icount, shadow, prev, prog, gdb, readout>>

\* what machine_run does with the value r of machine_step:
\* ret = machine_run returns, value = what it returns
run_result(r) ==
  IF r.err = ERR_OK THEN [ret |-> FALSE, value |-> ERR_OK, err |-> r.err, m |-> r.m]
  ELSE IF r.err = ERR_EXIT THEN [ret |-> TRUE, value |-> ERR_OK, err |-> r.err, m |-> r.m]
  ELSE [ret |-> TRUE, value |-> r.err, err |-> r.err,
        m |-> machine_add_backtrace(r.m, r.m.regs[PC], r.m.regs[SP])]

\* the rest of one iteration of the loop of machine_run
run_iteration(m, env) ==
  run_result(machine_step(IF LogRank(m.loglevel) >= 4
                          THEN [m EXCEPT !.last_sp = m.regs[SP]] ELSE m, env))

\* the effect of an iteration it on the variables of the run thread
RunEffect(it) ==
  /\ machine' = [it.m EXCEPT !.halt = machine.halt]
  /\ runpc' = IF it.ret THEN "idle" ELSE "top"
  /\ result' = IF it.ret THEN it.value ELSE result
  /\ steperr' = it.err

RunStep ==
  /\ runpc = "exec"
  /\ \E env \in Env : RunEffect(run_iteration(machine, env)) /\ ShadowStep(env)
  /\ Count
  /\ Before
  /\ Resume
  /\ UNCHANGED <<prog, gdb, readout>>

\* machine_halt, from the debugger's thread
Halt ==
  /\ machine' = [machine EXCEPT !.halt = TRUE]
  /\ UNCHANGED <<runpc, result, steperr, icount, shadow, prev, phase, prog, gdb, readout>>

\* machine_step called by the debugger while machine_run is not executing
DebugEffect(r) ==
  /\ machine' = r.m
  /\ result' = r.err
  /\ steperr' = r.err

DebugStep ==
  /\ runpc = "idle"
  /\ \E env \in Env : DebugEffect(machine_step(machine, env)) /\ ShadowStep(env)
  /\ Count
  /\ Before
  /\ Resume
  /\ UNCHANGED <<runpc, prog, gdb, readout>>

machine_break(m, num, addr) ==
  IF num >= 4 THEN m ELSE [m EXCEPT !.hwbreak[num] = addr]

BreakSlots == {3, 4}
BreakAddrs == {ZERO, <<0, 12>>}

SetBreak ==
  /\ runpc = "idle"
  /\ \E num \in BreakSlots, addr \in BreakAddrs :
       machine' = machine_break(machine, num, addr)
  /\ UNCHANGED <<runpc, result, steperr, icount, shadow, prev, phase, prog, gdb, readout>>

Next == RunCall \/ RunTestHalt \/ RunClearHalt \/ RunStep \/ Halt \/ DebugStep \/ SetBreak

Spec == Init /\ [][Next]_vars

\* the run thread is scheduled: machine_run keeps looping once it is called
FairSpec ==
  Start(LoopPrograms \cup ResetPrograms) /\ [][Next]_vars
  /\ WF_vars(RunTestHalt) /\ WF_vars(RunClearHalt) /\ WF_vars(RunStep)

\* machine_reset called again by the host, between calls of machine_step
Reset ==
  /\ runpc = "idle"
  /\ machine' = machine_reset(machine)
  /\ shadow' = [machine_reset(shadow) EXCEPT !.hwbreak = NoBreak]
  /\ prev' = [guest |-> Guest(machine), fetched |-> FALSE]
  /\ phase' = "reset"
  /\ UNCHANGED <<runpc, result, steperr, icount, prog, gdb, readout>>

NextReset == DebugStep \/ Reset
SpecReset == Start(JumpPrograms \cup ResetPrograms) /\ [][NextReset]_vars

\* sizeof(machine->regs) / sizeof(machine->regs[0]): r0..r15 and the psr
NumRegs == 17

\* flags_t as the word regs[16] of the union: t is bit 24, v, c, z, n bits 28..31
PsrWord(psr) ==
  <<B2N(psr.n) * 2^15 + B2N(psr.z) * 2^14 + B2N(psr.c) * 2^13 + B2N(psr.v) * 2^12
      + psr.t * 2^8, 0>>

regword(m, i) == IF i < 16 THEN m.regs[i] ELSE PsrWord(m.psr)

\* machine_readregs into a buffer of num words: vals[i + 1] is what is stored
\* to regs[i]; words read behind machine->regs (undefined) come out as junk
machine_readregs(m, num, junk) ==
  LET n == IF num < NumRegs THEN NumRegs ELSE num
  IN  [num      |-> num,
       written  |-> n,
       vals     |-> [i \in 1..n |-> IF i <= NumRegs THEN regword(m, i - 1) ELSE junk],
       overread |-> n > NumRegs]

ReadNums == {0, 1, 16, 17, 18}
JunkWords == {ZERO, <<1, 1>>}

\* Machine.ReadRegisters(num) while machine_run is not executing
ReadRegs ==
  /\ runpc = "idle"
  /\ \E num \in ReadNums, junk \in JunkWords :
       readout' = machine_readregs(machine, num, junk)
  /\ prev' = [guest |-> Guest(machine), fetched |-> FALSE]
  /\ phase' = "read"
  /\ UNCHANGED <<machine, runpc, result, steperr, icount, shadow, prog, gdb>>

NextRegs == DebugStep \/ ReadRegs
SpecRegs == Start(JumpPrograms) /\ [][NextRegs]_vars

\* images that end in a fault (bad addresses, unknown encodings, a PC at the
\* end of the image) and accesses to the private peripheral bus,
\* single-stepped or run
NextFault == DebugStep \/ RunCall \/ RunTestHalt \/ RunStep
SpecFault ==
  Start(FaultPrograms \cup UndefPrograms \cup PcPrograms \cup NvicPrograms) /\ [][NextFault]_vars

\* nested calls up to and over MACHINE_BACKTRACE_LEN, then machine_run called
\* again and again on the invalid PC: call_depth is counted up to MaxOver
\* entries over the length of the backtrace
MaxOver == 4

RunCallAgain == machine.call_depth < MACHINE_BACKTRACE_LEN + MaxOver /\ RunCall

NextCalls == DebugStep \/ RunCallAgain \/ RunTestHalt \/ RunStep
SpecCalls == Start(CallPrograms) /\ [][NextCalls]_vars

\* the flag kernel on its own: the debugger single-steps an ALU image
NextAlu == DebugStep
SpecAlu == Start(AluPrograms) /\ [][NextAlu]_vars

\* conditional branches behind every combination of flags an addition or a
\* subtraction leaves
SpecCond == Start(CondPrograms) /\ [][NextAlu]_vars

\* IT blocks of one to four instructions behind every combination of flags
SpecIt == Start(ItPrograms) /\ [][NextAlu]_vars

\* loads and stores at the end of the image and of the SRAM
SpecEdge == Start(EdgePrograms) /\ [][NextAlu]_vars

\* page erases under several flash geometries
SpecGeom == Start(GeomPrograms) /\ [][NextAlu]_vars

\* transfers that fault half way
SpecPartial == Start(PartialPrograms) /\ [][NextAlu]_vars

\* calls and returns, single-stepped
SpecBt == Start(BtPrograms) /\ [][NextAlu]_vars

\* stack pointer adjustments by every immediate
SpecSp == Start(SpPrograms) /\ [][NextAlu]_vars

\* add and subtract with carry in the 16-bit and the two 32-bit forms
SpecAdc == Start(AdcPrograms) /\ [][NextAlu]_vars

----------------------------------------------------------------------------
(* main and the gdb server goroutine.  gdb.main is the position of main:    *)
(* "loop" before C.machine_run, "run" inside it, "send" at runChan <- and   *)
(* "wait" at <-runChan, "exit" after its return.  gdb.srv is the position   *)
(* of gdbHandle: "recv" waiting for a packet, "cont" in the select of the   *)
(* c packet, "halt" in Machine.Halt at <-m.runChan, "continue" in           *)
(* Machine.Continue at m.runChan <-.  gdb.last is the last packet that      *)
(* reached the machine and where machine_run was at that moment.            *)

machine_readreg(m, reg) == IF reg >= NumRegs THEN ZERO ELSE regword(m, reg)

\* machine_readmem of one aligned word; junk is the uninitialized local that
\* is copied when machine_transfer rejects the address
machine_readmem(m, address, junk, env) ==
  machine_transfer(m, address, LOAD, junk, WIDTH_32, FALSE, env).val

OneWord(w) == [num |-> 1, written |-> 1, vals |-> <<w>>, overread |-> FALSE]

Touch(pkt) == [pkt |-> pkt, during |-> runpc]

\* main: C.machine_run(machine)
MainCall ==
  /\ gdb.main = "loop" /\ runpc = "idle"
  /\ runpc' = "top"
  /\ gdb' = [gdb EXCEPT !.main = "run"]
  /\ UNCHANGED <<machine, result, steperr, icount, shadow, prev, phase, prog, readout>>

\* main: machine_run has returned; 0 ends the program, any other value is
\* announced on runChan
MainReturn ==
  /\ gdb.main = "run" /\ runpc = "idle"
  /\ gdb' = [gdb EXCEPT !.main = IF result = ERR_OK THEN "exit" ELSE "send"]
  /\ UNCHANGED <<machine, runpc, result, steperr, icount, shadow, prev, phase, prog, readout>>

\* runChan <- struct{}{} of main meets <-machine.runChan of the c packet or
\* of Machine.Halt; the server sets halted and returns to its packet loop
RunStopped ==
  /\ gdb.main = "send" /\ gdb.srv \in {"cont", "halt"}
  /\ gdb' = [gdb EXCEPT !.main = "wait", !.srv = "recv", !.halted = TRUE]
  /\ UNCHANGED <<machine, runpc, result, steperr, icount, shadow, prev, phase, prog, readout>>

\* m.runChan <- struct{}{} of Machine.Continue meets <-runChan of main
Resumed ==
  /\ gdb.srv = "continue" /\ gdb.main = "wait"
  /\ gdb' = [gdb EXCEPT !.main = "loop", !.srv = "cont"]
  /\ UNCHANGED <<machine, runpc, result, steperr, icount, shadow, prev, phase, prog, readout>>

\* packet c: Machine.Continue if halted, then the select loop
GdbContinue ==
  /\ gdb.srv = "recv" /\ gdb.main # "exit"
  /\ gdb' = [gdb EXCEPT !.srv = IF gdb.halted THEN "continue" ELSE "cont",
                        !.halted = FALSE]
  /\ UNCHANGED <<machine, runpc, result, steperr, icount, shadow, prev, phase, prog, readout>>

\* packet \x03 inside the select loop: Machine.Halt up to <-m.runChan
GdbInterrupt ==
  /\ gdb.srv = "cont" /\ gdb.main # "exit"
  /\ machine' = [machine EXCEPT !.halt = TRUE]
  /\ gdb' = [gdb EXCEPT !.srv = "halt"]
  /\ UNCHANGED <<runpc, result, steperr, icount, shadow, prev, phase, prog, readout>>

\* packet s: answered with E00 unless halted, else Machine.Step
GdbStep ==
  /\ gdb.srv = "recv" /\ gdb.main # "exit"
  /\ gdb.halted
  /\ \E env \in Env : DebugEffect(machine_step(machine, env)) /\ ShadowStep(env)
  /\ Count
  /\ Before
  /\ Resume
  /\ gdb' = [gdb EXCEPT !.last = Touch("s")]
  /\ UNCHANGED <<runpc, prog, readout>>

ReadRegNums == {15, 17}
ReadAddrs == {RAM0, <<24576, 0>>}

\* what the packets p, g and m can read from m: Machine.ReadRegister,
\* ReadRegisters(17), ReadMemory
GdbReads(m) ==
  {[pkt |-> "p", out |-> OneWord(machine_readreg(m, reg))] : reg \in ReadRegNums}
  \cup {[pkt |-> "g", out |-> machine_readregs(m, NumRegs, junk)] : junk \in JunkWords}
  \cup {[pkt |-> "m", out |-> OneWord(machine_readmem(m, x[1], x[2], x[3]))] :
          x \in ReadAddrs \X JunkWords \X Env}

\* packets p, g and m, answered whether the machine is halted or not
GdbRead ==
  /\ gdb.srv = "recv" /\ gdb.main # "exit"
  /\ \E r \in GdbReads(machine) :
       /\ readout' = r.out
       /\ gdb' = [gdb EXCEPT !.last = Touch(r.pkt)]
  /\ UNCHANGED <<machine, runpc, result, steperr, icount, shadow, prev, phase, prog>>

\* packets Z and z: E00 for a slot number above 3, else Machine.SetBreakpoint
GdbSetBreak ==
  /\ gdb.srv = "recv" /\ gdb.main # "exit"
  /\ \E num \in BreakSlots, addr \in BreakAddrs :
       /\ num < 4
       /\ machine' = machine_break(machine, num, addr)
  /\ gdb' = [gdb EXCEPT !.last = Touch("Z")]
  /\ UNCHANGED <<runpc, result, steperr, icount, shadow, prev, phase, prog, readout>>

NextGdb ==
  \/ MainCall \/ RunTestHalt \/ RunClearHalt \/ RunStep \/ MainReturn
  \/ RunStopped \/ Resumed
  \/ GdbContinue \/ GdbInterrupt \/ GdbStep \/ GdbRead \/ GdbSetBreak

SpecGdb == Start(LoopPrograms \cup ResetPrograms) /\ [][NextGdb]_vars

TypeOK ==
  /\ \A r \in Regs : IsWord(machine.regs[r])
  /\ \A i \in DOMAIN machine.image8 : machine.image8[i] \in 0..255
  /\ \A i \in DOMAIN machine.mem8 : machine.mem8[i] \in 0..255
  /\ runpc \in {"idle", "top", "clear", "exec"}

Decoded == steperr # UNMODELLED

----------------------------------------------------------------------------
(* The last machine_step call, read off the guest state before it *)

old == prev.guest

\* the halfword machine_step fetched (meaningful when prev.fetched)
LastInstr == old.image8[old.regs[PC][2] - 1] + 256 * old.image8[old.regs[PC][2]]
Top5 == LastInstr \div 2048

\* 0x6000 STR, 0x7000 STRB, 0x8000 STRH (immediate offset), 0xc000 STMIA
IsStore == prev.fetched /\ Top5 \in {12, 14, 16, 24}
StoreWidth == CASE Top5 = 14 -> 1 [] Top5 = 16 -> 2 [] OTHER -> 4
StoreBase == IF Top5 = 24 THEN (LastInstr \div 256) % 8 ELSE (LastInstr \div 8) % 8
StoreAddr ==
  IF Top5 = 24 THEN old.regs[StoreBase]
  ELSE addi(old.regs[StoreBase], ((LastInstr \div 64) % 32) * StoreWidth)
\* the register stored: Rd, or the lowest register of an STMIA list
StoreSrc ==
  IF Top5 = 24
  THEN CHOOSE r \in 0..7 : (LastInstr \div 2^r) % 2 = 1
                           /\ \A q \in 0..(r - 1) : (LastInstr \div 2^q) % 2 = 0
  ELSE LastInstr % 8
StoreVal == old.regs[StoreSrc]
InFlash(a) == a[1] \div 8192 = 0            \* top three address bits 000

RefBit8(x, k) == (x \div 2^k) % 2
RefBit(w, k) == IF k >= 16 THEN RefBit8(w[1], k - 16) ELSE RefBit8(w[2], k)
RefByte(w, k) == IF k < 2 THEN (w[2] \div 256^k) % 256 ELSE (w[1] \div 256^(k - 2)) % 256
RefAnd8(x, y) ==
  RefBit8(x, 0) * RefBit8(y, 0) + 2 * RefBit8(x, 1) * RefBit8(y, 1)
  + 4 * RefBit8(x, 2) * RefBit8(y, 2) + 8 * RefBit8(x, 3) * RefBit8(y, 3)
  + 16 * RefBit8(x, 4) * RefBit8(y, 4) + 32 * RefBit8(x, 5) * RefBit8(y, 5)
  + 64 * RefBit8(x, 6) * RefBit8(y, 6) + 128 * RefBit8(x, 7) * RefBit8(y, 7)

----------------------------------------------------------------------------
(* Flash stores *)

\* C1 (as stated): with image_writable false, every STORE whose address lies in
\* the flash region makes machine_step return ERR_MEM and leaves each byte of
\* the image as it was before the step.
C1_FlashStoreRejected ==
  (IsStore /\ InFlash(StoreAddr) /\ ~old.image_writable)
    => (steperr = ERR_MEM /\ machine.image8 = old.image8)

\* C1: an STMIA to read-only flash has been executed and machine_step returned ERR_OK
C1_StmiaAccepted ==
  /\ IsStore /\ InFlash(StoreAddr) /\ ~old.image_writable
  /\ Top5 = 24 /\ steperr = ERR_OK

\* C2: with image_writable true, an aligned STR inside the image replaces the
\* word w by (w AND v) and changes nothing else of the image; and no store to
\* the flash region turns an image bit from 0 to 1.
C2_FlashStoreAnds ==
  /\ (IsStore /\ Top5 = 12 /\ old.image_writable /\ StoreAddr[1] = 0
        /\ StoreAddr[2] < machine.image_size /\ StoreAddr[2] % 4 = 0)
       => /\ steperr = ERR_OK
          /\ \A i \in DOMAIN machine.image8 :
               machine.image8[i] =
                 IF i >= StoreAddr[2] /\ i < StoreAddr[2] + 4
                 THEN RefAnd8(old.image8[i], RefByte(StoreVal, i - StoreAddr[2]))
                 ELSE old.image8[i]
  /\ (IsStore /\ InFlash(StoreAddr))
       => \A i \in DOMAIN machine.image8 : \A k \in 0..7 :
            RefBit8(machine.image8[i], k) <= RefBit8(old.image8[i], k)

\* C2: a writable aligned flash store has cleared bits of a word of the image
C2_Witness ==
  /\ IsStore /\ Top5 = 12 /\ old.image_writable /\ StoreAddr[1] = 0
  /\ StoreAddr[2] < machine.image_size /\ StoreAddr[2] % 4 = 0
  /\ steperr = ERR_OK /\ machine.image8 # old.image8

\* C3: a 32-bit store of a page-aligned v < image_size to NVMC.ERASEPAGE sets
\* exactly the image bytes [v, v + pagesize) to 0xFF; the other image bytes,
\* the SRAM and the registers stay (PC moves to the next instruction, and an
\* STMIA writes its base register back).
C3_ErasePage ==
  (IsStore /\ Top5 \in {12, 24} /\ StoreAddr = NVMC_ERASEPAGE /\ StoreVal[1] = 0
     /\ StoreVal[2] % machine.pagesize = 0 /\ StoreVal[2] < machine.image_size)
    => /\ steperr = ERR_OK
       /\ \A i \in DOMAIN machine.image8 :
            machine.image8[i] =
              IF i >= StoreVal[2] /\ i < StoreVal[2] + machine.pagesize
              THEN 255 ELSE old.image8[i]
       /\ machine.mem8 = old.mem8
       /\ \A r \in 0..14 : (Top5 = 12 \/ r # StoreBase) => machine.regs[r] = old.regs[r]
       /\ machine.regs[PC] = <<old.regs[PC][1], old.regs[PC][2] + 2>>

\* C3: a page that held programmed bytes has been erased
C3_Witness ==
  /\ IsStore /\ Top5 = 12 /\ StoreAddr = NVMC_ERASEPAGE /\ StoreVal[1] = 0
  /\ StoreVal[2] % machine.pagesize = 0 /\ StoreVal[2] < machine.image_size
  /\ steperr = ERR_OK
  /\ \E i \in DOMAIN machine.image8 : old.image8[i] # 255 /\ machine.image8[i] = 255

----------------------------------------------------------------------------
(* The Thumb bit *)

\* C4 (as stated): after every machine_step that returns ERR_OK, bit 0 of PC is 1
C4_ThumbBit == (prev.fetched /\ steperr = ERR_OK) => machine.regs[PC][2] % 2 = 1

\* C4: an instruction has put an even value into PC and machine_step returned ERR_OK
C4_EvenAfterStep ==
  /\ prev.fetched /\ steperr = ERR_OK /\ machine.regs[PC][2] % 2 = 0
  /\ prog.kind = "jump" /\ prog.how = "bx"

----------------------------------------------------------------------------
(* The flag kernel *)

\* the ALU instruction of an ALU image has just been executed
AluDone(op) ==
  prog.kind = "alu" /\ prog.op = op /\ prev.fetched /\ old.regs[PC] = <<0, 15>>

\* the upper half of a word as a signed number
SHi(x) == IF x[1] >= 2^15 THEN x[1] - H16 ELSE x[1]

\* C5: ADDS yields (a + b) mod 2^32, N = bit 31, Z = (result = 0), C = 1 iff the
\* unsigned sum is >= 2^32, V = 1 iff the signed sum is outside [-2^31, 2^31 - 1].
C5_AddFlags ==
  AluDone("adds") =>
    LET a   == old.regs[0]
        b   == old.regs[1]
        lo  == a[2] + b[2]
        hi  == a[1] + b[1] + lo \div H16
        shi == SHi(a) + SHi(b) + lo \div H16
        r   == machine.regs[2]
    IN  /\ steperr = ERR_OK
        /\ r = <<hi % H16, lo % H16>>
        /\ machine.psr.n = (r[1] >= 2^15)
        /\ machine.psr.z = (r = ZERO)
        /\ machine.psr.c = (hi >= H16)
        /\ machine.psr.v = (shi < -(2^15) \/ shi > 2^15 - 1)

\* C5: an addition with unsigned carry and signed overflow has been executed
C5_Witness ==
  /\ AluDone("adds") /\ old.regs[0] = <<32768, 0>> /\ old.regs[1] = <<32768, 1>>
  /\ machine.psr.c /\ machine.psr.v /\ machine.regs[2] = <<0, 1>>

\* C6: SUBS and CMP yield (a - b) mod 2^32 (CMP keeps no result), N = bit 31,
\* Z = (result = 0), C = 1 iff a >= b unsigned, V = 1 iff the signed difference
\* is outside [-2^31, 2^31 - 1].
C6_SubFlags ==
  (AluDone("subs") \/ AluDone("cmp") \/ AluDone("cmpi")) =>
    LET a   == old.regs[0]
        b   == IF prog.op = "cmpi" THEN <<0, prog.b[2] % 256>> ELSE old.regs[1]
        lo  == a[2] - b[2]
        borrow == IF lo < 0 THEN 1 ELSE 0
        hi  == a[1] - b[1] - borrow
        shi == SHi(a) - SHi(b) - borrow
        r   == <<(hi + H16) % H16, (lo + H16) % H16>>
    IN  /\ steperr = ERR_OK
        /\ prog.op = "subs" => machine.regs[2] = r
        /\ prog.op # "subs" => \A q \in 0..14 : machine.regs[q] = old.regs[q]
        /\ machine.psr.n = (r[1] >= 2^15)
        /\ machine.psr.z = (r = ZERO)
        /\ machine.psr.c = (a[1] > b[1] \/ (a[1] = b[1] /\ a[2] >= b[2]))
        /\ machine.psr.v = (shi < -(2^15) \/ shi > 2^15 - 1)

\* C6: a compare with borrow and signed overflow has been executed
C6_Witness ==
  /\ AluDone("cmp") /\ old.regs[0] = <<32767, H16 - 1>> /\ old.regs[1] = <<32768, 0>>
  /\ ~machine.psr.c /\ machine.psr.v /\ machine.psr.n

----------------------------------------------------------------------------
(* Halting and breakpoints *)

\* C8: once halt is set while machine_run executes, machine_run returns; it
\* returns ERR_HALT unless an instruction failed first; with the flag set at
\* the top of the loop no instruction is executed before the return; and the
\* flag is false when machine_run returns ERR_HALT.
C8_HaltObserved ==
  /\ (machine.halt /\ runpc # "idle")
       ~> (runpc = "idle" /\ (result = ERR_HALT \/ steperr # ERR_OK))
  /\ [][(runpc = "top" /\ machine.halt /\ runpc' # "top") => runpc' = "clear"]_vars
  /\ [][(runpc = "clear" /\ runpc' # "clear")
          => /\ runpc' = "idle" /\ result' = ERR_HALT /\ ~machine'.halt
             /\ icount' = icount /\ Guest(machine') = Guest(machine)]_vars

\* C8: machine_run has returned ERR_HALT out of a loop it had been executing
C8_Witness ==
  /\ prog.kind = "loop" /\ runpc = "idle" /\ result = ERR_HALT /\ ~machine.halt
  /\ steperr = ERR_OK /\ icount >= 3 /\ phase = "halted"

\* C9: whatever the debugger and machine_run do between instructions, the
\* registers, flags and memories are those of the uninterrupted execution
\* after the same number of instructions.
C9_Transparent == Guest(machine) = Guest(shadow)

\* C9: instructions have been executed after machine_run returned ERR_HALT
C9_Witness ==
  /\ prog.kind = "loop" /\ prog.len = 3 /\ phase = "resumed" /\ icount >= 5
  /\ steperr = ERR_OK /\ prev.fetched

HitsBreak(m) == \E k \in 0..3 : m.hwbreak[k] = subi(m.regs[PC], 1)

\* C10: a machine_step called with PC - 1 in a breakpoint slot returns
\* ERR_BREAK without fetching and leaves registers, flags and memory alone;
\* inside machine_run it makes machine_run return ERR_BREAK.
C10_BreakBeforeFetch ==
  [][((DebugStep \/ RunStep) /\ HitsBreak(machine))
       => /\ steperr' = ERR_BREAK
          /\ Guest(machine') = Guest(machine)
          /\ icount' = icount
          /\ runpc = "exec" => (runpc' = "idle" /\ result' = ERR_BREAK)]_vars

\* C10: machine_run has returned ERR_BREAK at the breakpoint, the instruction
\* there not executed
C10_Witness ==
  /\ runpc = "idle" /\ result = ERR_BREAK /\ steperr = ERR_BREAK /\ ~prev.fetched
  /\ machine.hwbreak[3] = <<0, 12>> /\ machine.regs[PC] = <<0, 13>> /\ icount = 2
  /\ phase = "none" /\ old = Guest(machine)
  /\ machine.backtrace[machine.call_depth].pc = machine.regs[PC]   \* entered by machine_run

----------------------------------------------------------------------------
(* Result codes of machine_run *)

\* C11 (as stated): once machine_step has returned ERR_EXIT at the sentinel PC,
\* the call that reported it (machine_run, or the debugger's step) has returned
\* ERR_EXIT, a code other than ERR_OK (a later machine_run may return ERR_HALT).
C11_ExitReported ==
  (runpc = "idle" /\ steperr = ERR_EXIT) => (result = ERR_EXIT \/ result = ERR_HALT)

\* C11: machine_run has reached the sentinel and returned 0
C11_RunReturnsOk ==
  /\ runpc = "idle" /\ steperr = ERR_EXIT /\ result = ERR_OK
  /\ machine.regs[PC] = SENTINEL /\ ~prev.fetched

----------------------------------------------------------------------------
(* machine_reset *)

\* C12 (as stated): right after machine_reset, from whatever state it is
\* called in, SP is the image word at offset 0, PC the word at offset 4 with
\* bit 0 set, LR the sentinel, call_depth 1, backtrace[1] the reset vector
\* (with or without its Thumb bit) and SP, and the T flag 1.
C12_ResetState ==
  phase = "reset" =>
    /\ machine.regs[SP] = image32(machine, 0)
    /\ machine.regs[PC] = or32(image32(machine, 1), <<0, 1>>)
    /\ machine.regs[LR] = SENTINEL
    /\ machine.call_depth = 1
    /\ machine.backtrace[1].sp = machine.regs[SP]
    /\ machine.backtrace[1].pc \in {machine.regs[PC], subi(machine.regs[PC], 1)}
    /\ machine.psr.t = 1

\* C12: machine_reset has run after a BLX moved call_depth, on an image with
\* an odd reset vector, and call_depth is not 1
C12_StaleCallDepth ==
  /\ phase = "reset" /\ prog.kind = "jump" /\ prog.how = "blx"
  /\ machine.regs[PC] = image32(machine, 1) /\ machine.regs[LR] = SENTINEL
  /\ machine.call_depth # 1

----------------------------------------------------------------------------
(* machine_readregs *)

\* C13 (as stated): machine_readregs with a buffer of num words copies exactly
\* min(num, NumRegs) words, buf[i] = regs[i]; it stores nothing at or behind
\* buf[num], reads nothing behind regs[NumRegs - 1] and leaves the machine alone.
C13_ReadRegsClamped ==
  phase = "read" =>
    LET k == IF readout.num < NumRegs THEN readout.num ELSE NumRegs
    IN  /\ readout.written = k
        /\ \A i \in 1..k : readout.vals[i] = regword(machine, i - 1)
        /\ ~readout.overread
        /\ Guest(machine) = old

\* C13: a call with a one-word buffer has stored seventeen words
C13_BufferOverrun ==
  /\ phase = "read" /\ readout.num = 1 /\ readout.written = NumRegs
  /\ readout.vals[NumRegs] = PsrWord(machine.psr) /\ icount >= 1

----------------------------------------------------------------------------
(* Faults of the router *)

\* C14 (as stated): whenever machine_transfer has rejected a transfer of the
\* last instruction, machine_step has returned ERR_MEM.
C14_RejectReported == machine.rejected => steperr = ERR_MEM

\* C14: machine_run goes on with the next instruction after an STMIA whose
\* transfer was rejected
C14_RunContinues ==
  /\ machine.rejected /\ steperr = ERR_OK /\ runpc = "top" /\ prev.fetched
  /\ prog.kind = "fault" /\ prog.op = "stmia"

\* C15 (as stated): whenever machine_step returns ERR_UNDEFINED, PC has the
\* value it had before the step.
C15_UndefinedKeepsPc ==
  (steperr = ERR_UNDEFINED /\ prev.fetched) => machine.regs[PC] = old.regs[PC]

\* C15: the 32-bit encoding 0xffff 0xffff has been reported undefined with PC
\* two bytes behind its start
C15_PcInsideInstruction ==
  /\ steperr = ERR_UNDEFINED /\ prev.fetched /\ prog.kind = "undef"
  /\ prog.code = 65535 /\ prog.hw2 = 65535 /\ old.regs[PC] = <<0, 11>>
  /\ machine.regs[PC] = <<0, 13>>


\* C16: a machine_step call whose PC is neither at a breakpoint nor the sentinel
\* and is above image_size - 2 or even returns ERR_PC without fetching and
\* leaves the guest state as it was
C16_FaultPC ==
  (/\ gtInt(old.regs[PC], machine.image_size - 2) \/ old.regs[PC][2] % 2 = 0
   /\ old.regs[PC] # SENTINEL
   /\ \A k \in 0..3 : subi(old.regs[PC], 1) # machine.hwbreak[k])
  => (steperr = ERR_PC /\ ~prev.fetched /\ Guest(machine) = old)

\* the step at PC = image_size - 1 has fetched the last halfword of the image,
\* movs r1,#5, and executed it
C16_LastHalfwordFetched ==
  /\ prog.kind = "pc"
  /\ old.regs[PC] = Word(machine.image_size - 1)
  /\ prev.fetched
  /\ steperr = ERR_OK
  /\ machine.regs[1] = <<0, 5>>
  /\ machine.regs[PC] = Word(machine.image_size + 1)


\* C17: every backtrace entry that is written has an index in
\* 0..MACHINE_BACKTRACE_LEN - 1, and once call_depth has reached
\* MACHINE_BACKTRACE_LEN no step and no return of machine_run changes the
\* backtrace any more
C17_BacktraceBounded ==
  /\ [](machine.bt_last \in 0..(MACHINE_BACKTRACE_LEN - 1))
  /\ [][machine.call_depth >= MACHINE_BACKTRACE_LEN
          => machine'.backtrace = machine.backtrace]_vars

\* the calls have nested deeper than the backtrace is long, the last entry
\* is filled, the instructions behind the bound were executed and machine_run
\* has reported the invalid PC
C17_DeeperThanBacktrace ==
  /\ prog.kind = "call"
  /\ machine.call_depth > MACHINE_BACKTRACE_LEN + 1
  /\ machine.bt_last = MACHINE_BACKTRACE_LEN - 1
  /\ icount = MaxSteps
  /\ machine.regs[0] = ZERO
  /\ runpc = "idle" /\ result = ERR_PC


\* C18: for every word-aligned a in 0xe000e400..0xe000e41f a 32-bit store to a
\* and a 32-bit load from a succeed, no access leaves the nvic.ip array, the
\* word nvic.ip[(a / 4) mod 8] holds the stored value after the store, and the
\* load returns it
C18_NvicRoundTrip ==
  prog.kind = "nvic" =>
    /\ steperr # ERR_MEM
    /\ ~machine.oob
    /\ machine.regs[PC][2] \in {15, 17} =>
         rdptr(machine, [buf |-> "nvic", off |-> 4 * ((prog.addr[2] \div 4) % 8)],
               WIDTH_32, [byte |-> 255]) = prog.val
    /\ machine.regs[PC][2] = 17 => machine.regs[2] = prog.val

\* the store to 0xe000e408 was accepted and went to nvic.ip[8], behind the
\* eight words of the array
C18_StoreBehindArray ==
  /\ prog.kind = "nvic"
  /\ prog.addr = addi(NVIC_IP, 8)
  /\ old.regs[PC] = <<0, 13>> /\ prev.fetched
  /\ steperr = ERR_OK
  /\ machine.oob
  /\ machine.nvic8 = old.nvic8


\* the condition table of the ARM architecture: 1 if true, 0 if false, -1 for NV
ArmCondition(psr, cond) ==
  CASE cond = 0  -> B2N(psr.z)                    [] cond = 1  -> B2N(~psr.z)
    [] cond = 2  -> B2N(psr.c)                    [] cond = 3  -> B2N(~psr.c)
    [] cond = 4  -> B2N(psr.n)                    [] cond = 5  -> B2N(~psr.n)
    [] cond = 6  -> B2N(psr.v)                    [] cond = 7  -> B2N(~psr.v)
    [] cond = 8  -> B2N(psr.c /\ ~psr.z)          [] cond = 9  -> B2N(~psr.c \/ psr.z)
    [] cond = 10 -> B2N(psr.n = psr.v)            [] cond = 11 -> B2N(psr.n # psr.v)
    [] cond = 12 -> B2N(~psr.z /\ psr.n = psr.v)  [] cond = 13 -> B2N(psr.z \/ psr.n # psr.v)
    [] cond = 14 -> 1                             [] cond = 15 -> -1

\* C20: for every condition code and all flags, machine_condition on the flags
\* before a conditional branch answers as the ARM table does (-1 only for NV),
\* and the branch is taken, not taken or undefined accordingly
C20_ConditionTable ==
  (prog.kind = "cond" /\ old.regs[PC] = <<0, 15>> /\ prev.fetched) =>
    LET want == ArmCondition(old.psr, prog.cond)
    IN  /\ machine_condition([psr |-> old.psr], prog.cond) = want
        /\ steperr = (IF want = -1 THEN ERR_UNDEFINED ELSE ERR_OK)
        /\ machine.regs[PC] = (IF want = 1 THEN <<0, 19>> ELSE <<0, 17>>)

\* BVS behind 0x7fffffff + 1, which sets V: the branch is reported undefined
C20_BvsUndefined ==
  /\ prog.kind = "cond" /\ prog.cond = 6
  /\ old.regs[PC] = <<0, 15>> /\ prev.fetched
  /\ old.psr.v /\ old.psr.n
  /\ steperr = ERR_UNDEFINED
  /\ machine.regs[PC] = <<0, 17>>


\* C19: set_breakpoint, read_register, read_registers, read_memory and step
\* reach the machine only while machine_run is not executing (it has not been
\* entered, or it has returned and is not re-entered)
C19_TouchOnlyWhenPaused ==
  gdb.last.pkt \in {"Z", "p", "g", "m", "s"} => gdb.last.during = "idle"

\* a g packet was answered, the registers were copied while machine_run was
\* about to execute an instruction, and machine_run has not returned since
C19_ReadDuringRun ==
  /\ gdb.last = [pkt |-> "g", during |-> "exec"]
  /\ readout.written = NumRegs
  /\ gdb.main = "run" /\ runpc # "idle"
  /\ ~gdb.halted


\* AddWithCarry of the ARM architecture on 16-bit halves: the 32-bit sum of
\* a, b and the carry cin, its carry out and its signed overflow
AddWithCarry(a, b, cin) ==
  LET lo == a[2] + b[2] + cin
      hi == a[1] + b[1] + (lo \div H16)
      val == <<hi % H16, lo % H16>>
  IN  [val |-> val, c |-> hi >= H16,
       v |-> neg32(a) = neg32(b) /\ neg32(val) # neg32(a)]

\* the second operand of the ADC/SBC of an image: r1, the expanded constant,
\* or r1 shifted
AdcOperand(p, r1) ==
  CASE p.form = "r16" -> r1
    [] p.form = "imm" ->
         (CASE p.k = 0 -> ZERO [] p.k = 255 -> <<0, 255>>
            [] p.k = 1279 -> <<32640, 0>> [] p.k = 1024 -> <<32768, 0>>)
    [] p.form = "reg" ->
         (CASE p.k = 0 -> r1 [] p.k = 1 -> shl32(r1, 1) [] p.k = 33 -> shr32(r1, 1)
            [] p.k = 64 -> IF neg32(r1) THEN <<H16 - 1, H16 - 1>> ELSE ZERO)

\* C21: ADCS and SBCS, in the 16-bit form and in the 32-bit forms with a
\* modified immediate or a shifted register, add the C flag held before the
\* instruction (SBCS: subtract 1 - C), and leave the C and V of that sum
C21_CarryIn ==
  (prog.kind = "adc" /\ old.regs[PC] = <<0, 15>> /\ prev.fetched) =>
    LET opnd == AdcOperand(prog, old.regs[1])
        w == AddWithCarry(old.regs[0], IF prog.sbc THEN not32(opnd) ELSE opnd,
                          B2N(old.psr.c))
    IN  /\ steperr = ERR_OK
        /\ machine.regs[IF prog.form = "r16" THEN 0 ELSE 2] = w.val
        /\ machine.psr.c = w.c
        /\ machine.psr.v = w.v

\* adcs r2, r0, #0x80000000 with r0 = 0 and C clear has produced 0x80000001:
\* the carry added is bit 31 of the constant
C21_ConstantCarryAdded ==
  /\ prog.kind = "adc" /\ prog.form = "imm" /\ ~prog.sbc /\ prog.k = 1024
  /\ old.regs[PC] = <<0, 15>> /\ prev.fetched
  /\ old.regs[0] = ZERO /\ ~old.psr.c
  /\ steperr = ERR_OK
  /\ machine.regs[2] = <<32768, 1>>


\* the number of instructions an IT mask covers, and the condition of the
\* j-th of them: firstcond with its low bit taken from the mask
ItCount(mask) ==
  IF mask % 2 = 1 THEN 4 ELSE IF mask % 4 = 2 THEN 3 ELSE IF mask % 8 = 4 THEN 2 ELSE 1

ItCond(firstcond, mask, j) ==
  (firstcond \div 2) * 2 + (IF j = 1 THEN firstcond % 2 ELSE bits(mask, 5 - j, 1))

\* C22: no instruction of or behind an IT block is reported undefined, and
\* once the five instructions behind the IT instruction are passed, each of
\* the first k was executed iff its condition holds on the flags, the others
\* were executed, and the IT state is 0
C22_ItBlock ==
  prog.kind = "it" =>
    /\ steperr = ERR_OK
    /\ (old.regs[PC] = <<0, 25>> /\ prev.fetched) =>
         /\ \A j \in 1..4 :
              (machine.regs[2 + j] # ZERO) <=>
                (j <= ItCount(prog.mask) =>
                   ArmCondition(machine.psr, ItCond(prog.firstcond, prog.mask, j)) = 1)
         /\ machine.regs[7] # ZERO
         /\ it_state(machine) = 0

\* ITTT EQ behind a non-zero sum: Z is clear, yet the three instructions of
\* the block were executed and the IT state is left at 2
C22_BlockNotEntered ==
  /\ prog.kind = "it" /\ prog.firstcond = 0 /\ prog.mask = 2
  /\ old.regs[PC] = <<0, 25>> /\ prev.fetched
  /\ ~machine.psr.z
  /\ machine.regs[3] # ZERO /\ machine.regs[4] # ZERO /\ machine.regs[5] # ZERO
  /\ it_state(machine) = 2


\* C23: a step over ADD SP,#imm or SUB SP,#imm moves SP by imm7 * 4 up or
\* down (mod 2^32) and changes no other register but PC and no flag
C23_AdjustSp ==
  (prog.kind = "sp" /\ old.regs[PC] = <<0, 13>> /\ prev.fetched) =>
    /\ steperr = ERR_OK
    /\ machine.regs[SP] = IF prog.neg THEN subi(old.regs[SP], prog.imm7 * 4)
                          ELSE addi(old.regs[SP], prog.imm7 * 4)
    /\ \A r \in DOMAIN old.regs : r \notin {SP, PC} => machine.regs[r] = old.regs[r]
    /\ machine.psr = old.psr

\* add sp,#0x100 (imm7 = 64) has left SP where it was
C23_SeventhBitDropped ==
  /\ prog.kind = "sp" /\ ~prog.neg /\ prog.imm7 = 64
  /\ old.regs[PC] = <<0, 13>> /\ prev.fetched
  /\ machine.regs[SP] = old.regs[SP]


\* the halfword at the PC, the instruction the next step executes
CurInstr == machine.image8[machine.regs[PC][2] - 1] + 256 * machine.image8[machine.regs[PC][2]]
IsBL      == CurInstr \div 2048 = 30                    \* 0xf000 (with 0xf800: bl)
IsBLX     == CurInstr \div 128 = 143                    \* 0x4780
IsPushLR  == CurInstr \div 256 = 181                    \* 0xb500
IsPopPC   == CurInstr \div 256 = 189                    \* 0xbd00
IsBXLR    == CurInstr = BX_LR

\* the backtrace as the sequence of its entries 0..call_depth, the last one
\* the entry written last
BtEntries(m) == [i \in 1..(m.call_depth + 1) |-> m.backtrace[i - 1]]

\* s without the entries at its end whose recorded SP is >= sp (resp. <= sp)
PopGe(s, sp) ==
  LET n == CHOOSE n \in 0..Len(s) :
             /\ \A i \in (n + 1)..Len(s) : le32(sp, s[i].sp)
             /\ n > 0 => ~le32(sp, s[n].sp)
  IN  SubSeq(s, 1, n)

PopLe(s, sp) ==
  LET n == CHOOSE n \in 0..Len(s) :
             /\ \A i \in (n + 1)..Len(s) : le32(s[i].sp, sp)
             /\ n > 0 => ~le32(s[n].sp, sp)
  IN  SubSeq(s, 1, n)

----------------------------------------------------------------------------
(* The image while image_writable is false *)

\* C25: a step that starts and ends with image_writable false leaves every
\* byte of the image as it was
C25_ReadOnlyImage ==
  (~old.image_writable /\ ~machine.image_writable) => machine.image8 = old.image8

\* a store to NVMC.ERASEPAGE has erased a page although NVMC.CONFIG is 0
C25_ErasedWhileReadOnly ==
  /\ IsStore /\ StoreAddr = NVMC_ERASEPAGE /\ steperr = ERR_OK
  /\ ~old.image_writable /\ ~machine.image_writable
  /\ \E i \in DOMAIN machine.image8 : old.image8[i] # 255 /\ machine.image8[i] = 255


----------------------------------------------------------------------------
(* Accesses at the end of a buffer *)

EdgeWidth == CASE prog.op \in {"ldr", "str"} -> 4 [] prog.op \in {"ldrh", "strh"} -> 2
               [] OTHER -> 1
\* the buffer prog.addr points into, its size, and the offset in it
EdgeInImage == prog.addr[1] = 0
EdgeSize    == IF EdgeInImage THEN machine.image_size ELSE machine.mem_size
EdgeOffset  == prog.addr[2]
EdgeDone    == prog.kind = "edge" /\ old.regs[PC] = <<0, 13>> /\ prev.fetched

\* C26: a load or store of w bytes at offset o of the image or of the SRAM
\* that is accepted lies inside the buffer, o + w <= size, and no byte outside
\* the buffer is touched
C26_AccessInside ==
  (EdgeDone /\ steperr = ERR_OK) =>
    /\ EdgeOffset + EdgeWidth <= EdgeSize
    /\ ~machine.oob

\* ldr r1,[r0] at the last byte of the SRAM was accepted: three of its four
\* bytes lie behind the buffer
C26_WordAtLastByte ==
  /\ EdgeDone /\ prog.op = "ldr" /\ ~EdgeInImage
  /\ EdgeOffset = machine.mem_size - 1
  /\ steperr = ERR_OK
  /\ machine.oob


----------------------------------------------------------------------------
(* Instruction fetches *)

\* C27: no halfword machine_step fetches lies behind the image: in a program
\* that does nothing but branch, no access has left its buffer
C27_FetchInside ==
  prog.kind = "pc" => ~machine.oob

\* the last halfword of the image is 0xffff, the first half of a 32-bit
\* encoding: the step fetched its second half at offset image_size
C27_SecondHalfBehindImage ==
  /\ prog.kind = "pc" /\ prog.last = 65535
  /\ old.regs[PC] = Word(machine.image_size - 1)
  /\ prev.fetched
  /\ machine.oob


----------------------------------------------------------------------------
(* Page erases and the flash geometry *)

GeomDone == prog.kind = "geom" /\ old.regs[PC] = <<0, 13>> /\ prev.fetched

\* C28: a store of v to NVMC.ERASEPAGE that is accepted erases inside the
\* image, v + pagesize <= image_size, whatever the geometry
C28_EraseInside ==
  (GeomDone /\ steperr = ERR_OK) =>
    /\ prog.v + machine.pagesize <= machine.image_size
    /\ ~machine.oob

\* the image size is not a multiple of the page size: the erase of the last,
\* partial page was accepted and ran past the end of the image
C28_ErasePastEnd ==
  /\ GeomDone /\ steperr = ERR_OK
  /\ machine.image_size % machine.pagesize # 0
  /\ prog.v + machine.pagesize > machine.image_size
  /\ machine.oob
  /\ \A i \in DOMAIN machine.image8 : i >= prog.v => machine.image8[i] = 255


----------------------------------------------------------------------------
(* A halt request that races with the end of the run *)

\* C29: when machine_run, past its test of the halt flag, has the flag set by
\* machine_halt and then returns because its instruction failed, the flag is
\* false on return
C29_NoPendingHalt ==
  [][(runpc = "exec" /\ machine.halt /\ runpc' = "idle") => ~machine'.halt]_vars

\* Machine.Halt has set the flag behind the test of machine_run, and the
\* instruction machine_run is about to step sits on a breakpoint: the run
\* returns ERR_BREAK and the flag stays set
C29_HaltBeforeBreak ==
  /\ runpc = "exec" /\ machine.halt
  /\ gdb.srv = "halt" /\ gdb.main = "run"
  /\ prefetch(machine) = ERR_BREAK


----------------------------------------------------------------------------
(* Transfers that fault *)

PartialDone == prog.kind = "partial" /\ old.regs[PC] = <<0, 17>> /\ prev.fetched

\* C30: a step that returns ERR_MEM leaves every register but PC and every
\* byte of memory as it was
C30_FaultIsAtomic ==
  (PartialDone /\ steperr = ERR_MEM) =>
    /\ \A r \in 0..14 : machine.regs[r] = old.regs[r]
    /\ machine.mem8 = old.mem8
    /\ machine.image8 = old.image8

\* pop {r1, r2} with SP at the last word of the SRAM: r1 was loaded, the load
\* of r2 was rejected, and the step returned ERR_MEM
C30_HalfPopped ==
  /\ PartialDone /\ prog.op = "pop" /\ steperr = ERR_MEM
  /\ prog.addr = addi(RAM0, machine.mem_size - 4)
  /\ machine.regs[1] # old.regs[1]
  /\ machine.regs[2] = old.regs[2]
  /\ machine.regs[SP] = old.regs[SP]

====
